---------------------------- MODULE Spec2Model ----------------------------
(***************************************************************************)
(* A model of seictl's node lifecycle orchestrator: the state manager      *)
(* (package state: snapshots, node stop, trust-block resolution, config    *)
(* patching) and the chain manager's StopNode.                             *)
(*                                                                         *)
(* Go strings are modelled as sequences of one-character strings, so that  *)
(* TrimSpace, TrimPrefix, HasPrefix, Split and Join do what the library    *)
(* does.  The filesystem, the node process and the RPC endpoints are the   *)
(* environment: every call into them that can fail fails                   *)
(* nondeterministically.                                                   *)
(*                                                                         *)
(* The module holds one specification per component:                       *)
(*   SpecHash     isValidHash on bounded inputs                            *)
(*   SpecPatch    updateConfig and the update loop of setupStateSync       *)
(*   SpecTrust    fetchTrustBlock (automatic, then interactive)            *)
(*   SpecSync     configureStateSync: fetchTrustBlock, then setupStateSync *)
(*   SpecStart    SyncState: startStateSync and MonitorStateSync            *)
(*   SpecBin      EnsureBinary                                             *)
(*   SpecInitChain  the chain manager's InitChain, with EnsureBinary       *)
(*   Spec         CreateSnapshot, RestoreSnapshot, stopNode and the chain  *)
(*                manager's StopNode, one operation after another          *)
(***************************************************************************)
EXTENDS Integers, Sequences, FiniteSets, TLC

VARIABLES
    \* ---- isValidHash
    hashInput,      \* the string handed to isValidHash
    hashResult,     \* "unset" | "valid" | "invalid"
    \* ---- updateConfig / setupStateSync's update loop
    content,        \* the document (config.toml's text)
    updates,        \* the update map: key -> value
    passes,         \* how many times the whole map was applied
    content0,       \* the document before the first pass
    afterOnce,      \* the document after the first pass
    lastOrder,      \* the key order the last pass iterated the map in
    steps,          \* the document before and after each key of the last pass
    cfgErr,         \* the error configureStateSync returned ("" for nil)
    cfgEndpoint,    \* the endpoint configureStateSync handed to setupStateSync
    \* ---- fetchTrustBlock
    environments,   \* m.config.Environments: name -> its RPCEndpoints
    rpcResponse,    \* what each endpoint answers to GET /block?height=N
    rpcEndpoints,   \* the list fetchTrustBlockAutomatic collected
    tpc,            \* where fetchTrustBlock is
    idx,            \* the index of the endpoint the loop is at
    queried,        \* the endpoints queried so far, in order
    stdinReads,     \* reads from standard input so far
    stdinLines,     \* what each read from standard input returned, in order
    heightIn,       \* the height parsed from the operator's input
    trustBlock,     \* the *Block fetchTrustBlock returned
    trustErr,       \* the error it returned ("" for nil)
    \* ---- RestoreSnapshot, stopNode, StopNode
    op,             \* the operation invoked: "none" | "RestoreSnapshot" | "StopNode"
    pc,             \* the step the operation is at
    ret,            \* the error the operation returned ("" for nil)
    snapFiles,      \* the files present at the snapshot path
    homeData,       \* <home>/data: "absent" | "orig" | "empty" | "partial" | "snap"
    homeWasm,       \* <home>/wasm, likewise
    data0,          \* <home>/data when the operation was invoked
    wasm0,          \* <home>/wasm when the operation was invoked
    backupDir,      \* <backup>/backup_<timestamp>: "absent" | "present"
    backupData,     \* its data copy: "none" | "partial" | "copy"
    backupWasm,     \* its wasm copy, likewise
    nodeRunning,    \* a seid process exists
    signals,        \* the signals delivered to it, in order
    log,            \* the steps taken, in order
    snapDirs,       \* <backup>/snapshot_<height>, for each height
    sealed,         \* what each of them held when CreateSnapshot first succeeded
    height,         \* the height CreateSnapshot was invoked with
    ops,            \* operations completed before this one
    \* ---- SyncState: startStateSync and MonitorStateSync
    spc,            \* where SyncState's main flow is
    sret,           \* the error SyncState returned ("" for nil)
    mpc,            \* where the monitor goroutine is
    merr,           \* what MonitorStateSync returned ("" for nil)
    errCh,          \* the buffer of errCh
    errChClosed,    \* errCh is closed
    cancelled,      \* ctx is done
    proc,           \* the launched seid: "none" | "running" | "exited"
    exitStatus,     \* its exit status (Killed when the context killed it)
    polls,          \* polls made so far
    failedPolls,    \* failed polls in a row
    observed,       \* some poll reported syncing = false
    firstEvent,     \* what happened first: "exit" | "done" | "cancel"
    cancelAt,       \* where the monitor was when ctx was cancelled
    waited,         \* the main flow called cmd.Wait
    \* ---- EnsureBinary
    version,        \* the version EnsureBinary was invoked with
    resolved,       \* the version after "latest" was resolved
    metaResp,       \* what the release-metadata endpoint answers
    binResp,        \* what the binary URL answers
    sumResp,        \* what the checksum URL answers
    bpc,            \* where EnsureBinary is
    bret,           \* the error it returned ("" for nil)
    binPath,        \* the file at /usr/local/bin/seid ("absent" when none)
    binPath0,       \* that file when EnsureBinary was invoked
    tmpDir,         \* the temporary directory: "absent" | "present"
    tmpFile,        \* the file seid in it ("absent" when none)
    downloaded,     \* what the binary download wrote, once it completed
    requests,       \* the requests made by this call, in order
    urls,           \* the URL of each of these requests
    calls,          \* EnsureBinary calls completed before this one
    prev,           \* how the call before ended: "none" | "installed" | "other"
    \* ---- InitChain
    envName,        \* the environment InitChain was invoked with
    opts,           \* its InitOptions
    cfgEnvs,        \* m.config.Environments: name -> ChainConfig
    cfgToml,        \* m.config.NodeConfigs.ConfigToml: key -> scalar or map reference
    heap,           \* the nested maps, by reference
    config0,        \* the value of the shared configuration at construction
    chainCfg,       \* InitChain's copy of the environment's ChainConfig
    ipc,            \* where InitChain is
    iret,           \* the error it returned ("" for nil)
    dirs,           \* the directories that exist, of home, config, data, wasm
    homeFiles,      \* app.toml, config.toml and genesis.json under config
    dirs0,          \* dirs when InitChain was invoked
    homeFiles0,     \* homeFiles when InitChain was invoked
    itrace,         \* the steps this call started, in order
    ifailed,        \* the step that failed ("none" when none did)
    ctxDone,        \* the command's context is cancelled
    genResp,        \* what the genesis URL answers
    gets,           \* genesis downloads begun by this call
    now,            \* the clock, in seconds
    icalls,         \* InitChain calls completed before this one
    first,          \* the result and the files of the first call
    builds,         \* the build commands run in a source directory
    \* ---- SaveConfig / LoadConfig
    saved,          \* the configuration handed to SaveConfig
    userHome,       \* what os.UserHomeDir returns
    cfgFile,        \* the document in the configuration file
    cfgExists,      \* whether the configuration file exists
    loaded,         \* the configuration LoadConfig returned
    cpc,            \* "idle" | "save" | "load" | "done"
    cret,           \* "none" | "" (nil) | the error
    \* ---- RetryWithContext
    maxAttempts,    \* opts.MaxAttempts
    attempt,        \* the loop counter
    lastErr,        \* lastErr, "" for nil
    fnCalls,        \* what each call of fn returned, in order
    ctxErr,         \* ctx.Err(), "" while the context is live
    sawDone,        \* whether the select took the Done case
    rpc,            \* "idle" | "loop" | "select" | "fn" | "sleep" | "returned"
    rret            \* "none" | "" (nil) | the error returned

hashVars  == <<hashInput, hashResult>>
patchVars == <<content, updates, passes, content0, afterOnce, lastOrder, steps,
               cfgErr, cfgEndpoint>>
trustCfg  == <<environments, rpcResponse>>
trustVars == <<environments, rpcResponse, rpcEndpoints, tpc, idx, queried,
               stdinReads, stdinLines, heightIn, trustBlock, trustErr>>
fsVars    == <<snapFiles, homeData, homeWasm, backupDir, backupData, backupWasm>>
createVars == <<snapDirs, sealed, height, ops>>
snapVars  == <<op, pc, ret, snapFiles, homeData, homeWasm, data0, wasm0,
               backupDir, backupData, backupWasm, nodeRunning, signals, log,
               createVars>>
startVars == <<spc, sret, mpc, merr, errCh, errChClosed, cancelled, proc,
               exitStatus, polls, failedPolls, observed, firstEvent, cancelAt,
               waited>>
binVars   == <<version, resolved, metaResp, binResp, sumResp, bpc, bret, binPath,
               binPath0, tmpDir, tmpFile, downloaded, requests, urls, calls,
               prev>>
binCalls  == <<calls, prev>>
initIn    == <<envName, opts, cfgEnvs, genResp, config0>>
initVars  == <<envName, opts, cfgEnvs, cfgToml, heap, config0, chainCfg, ipc, iret,
               dirs, homeFiles, dirs0, homeFiles0, itrace, ifailed, ctxDone, genResp, gets,
               now, icalls, first, builds>>
cfgVars   == <<saved, userHome, cfgFile, cfgExists, loaded, cpc, cret>>
retryVars == <<maxAttempts, attempt, lastErr, fnCalls, ctxErr, sawDone, rpc, rret>>
vars      == <<hashVars, patchVars, trustVars, snapVars, startVars, binVars, initVars,
               cfgVars, retryVars>>

-----------------------------------------------------------------------------
(* Strings *)

\* unicode.IsSpace on the characters the model uses
IsSpace(c) == c \in {" ", "\t", "\n", "\r"}

HasPrefix(s, p) == Len(s) >= Len(p) /\ SubSeq(s, 1, Len(p)) = p

TrimPrefix(s, p) == IF HasPrefix(s, p) THEN SubSeq(s, Len(p) + 1, Len(s)) ELSE s

RECURSIVE TrimLeftSpace(_)
TrimLeftSpace(s) ==
    IF s # <<>> /\ IsSpace(Head(s)) THEN TrimLeftSpace(Tail(s)) ELSE s

RECURSIVE TrimRightSpace(_)
TrimRightSpace(s) ==
    IF s # <<>> /\ IsSpace(s[Len(s)])
    THEN TrimRightSpace(SubSeq(s, 1, Len(s) - 1))
    ELSE s

TrimSpace(s) == TrimRightSpace(TrimLeftSpace(s))

\* strings.Split(s, "\n"): always at least one field
RECURSIVE SplitLines(_)
SplitLines(s) ==
    IF \A i \in 1..Len(s) : s[i] # "\n"
    THEN <<s>>
    ELSE LET n == CHOOSE i \in 1..Len(s) :
                      s[i] = "\n" /\ \A j \in 1..(i - 1) : s[j] # "\n"
         IN  <<SubSeq(s, 1, n - 1)>> \o SplitLines(SubSeq(s, n + 1, Len(s)))

\* strings.Join(lines, "\n")
RECURSIVE JoinLines(_)
JoinLines(lines) ==
    IF lines = <<>> THEN <<>>
    ELSE IF Len(lines) = 1 THEN lines[1]
    ELSE lines[1] \o <<"\n">> \o JoinLines(Tail(lines))

-----------------------------------------------------------------------------
(* isValidHash *)

HashHexLen == 64

HexDigits == {"0", "1", "2", "3", "4", "5", "6", "7", "8", "9",
              "a", "b", "c", "d", "e", "f", "A", "B", "C", "D", "E", "F"}

\* hex.DecodeString(s) returns no error: an even length and only hex digits
hexDecodeStringOk(s) ==
    /\ Len(s) % 2 = 0
    /\ \A i \in 1..Len(s) : s[i] \in HexDigits

\* a plausible slip: the length test dropped
isValidHashNoLength(hash) ==
    hexDecodeStringOk(TrimPrefix(hash, <<"0", "x">>))

isValidHash(hash) ==
    LET h == TrimPrefix(hash, <<"0", "x">>)
    IN  IF Len(h) # HashHexLen THEN FALSE ELSE hexDecodeStringOk(h)

\* the inputs: a run of one character, one position overwritten, a prefix
HashLenSlack == 2
HashChars    == {"a", "F", "0", "9", "g", "x", " "}
HashPrefixes == {<<>>, <<"0", "x">>, <<"0", "X">>, <<"0", "x", "0", "x">>}

HashInputs ==
    { p \o [i \in 1..n |-> IF i = k THEN c ELSE f] :
        p \in HashPrefixes,
        n \in (HashHexLen - HashLenSlack)..(HashHexLen + HashLenSlack),
        f \in HashChars, c \in HashChars, k \in {1, 2, HashHexLen} }

HashInit == hashInput \in HashInputs /\ hashResult = "unset"
HashIdle == hashInput = <<>> /\ hashResult = "unset"

ValidateHash ==
    /\ hashResult = "unset"
    /\ hashResult' = IF isValidHash(hashInput) THEN "valid" ELSE "invalid"
    /\ UNCHANGED <<cfgVars, retryVars, initVars, binVars, startVars, hashInput, patchVars, trustVars, snapVars>>

-----------------------------------------------------------------------------
(* updateConfig *)

\* the index of the first line whose trimmed form starts with "<key> =", or 0
FirstMatch(lines, key) ==
    LET hits == { i \in 1..Len(lines) :
                    HasPrefix(TrimSpace(lines[i]), key \o <<" ", "=">>) }
    IN  IF hits = {} THEN 0
        ELSE CHOOSE i \in hits : \A j \in hits : i <= j

\* a plausible slip: the loop without its break, every matching line rewritten
updateConfigEveryMatch(doc, key, value) ==
    LET lines == SplitLines(doc)
    IN  JoinLines([i \in 1..Len(lines) |->
                     IF HasPrefix(TrimSpace(lines[i]), key \o <<" ", "=">>)
                     THEN key \o <<" ", "=", " ">> \o value
                     ELSE lines[i]])

\* a plausible slip: the replacement written without the blanks around "="
updateConfigNoBlanks(doc, key, value) ==
    LET lines == SplitLines(doc)
        i     == FirstMatch(lines, key)
    IN  IF i = 0 THEN JoinLines(lines)
        ELSE JoinLines([lines EXCEPT ![i] = key \o <<"=">> \o value])

updateConfig(doc, key, value) ==
    LET lines == SplitLines(doc)
        i     == FirstMatch(lines, key)
    IN  IF i = 0 THEN JoinLines(lines)
        ELSE JoinLines([lines EXCEPT ![i] = key \o <<" ", "=", " ">> \o value])

\* for key, value := range updates { newContent = updateConfig(...) },
\* in the order the map iteration happened to take
RECURSIVE applyUpdates(_, _, _)
applyUpdates(doc, upd, order) ==
    IF order = <<>> THEN doc
    ELSE applyUpdates(updateConfig(doc, Head(order), upd[Head(order)]),
                      upd, Tail(order))

\* newContent before the loop and after each of its iterations
RECURSIVE updateSteps(_, _, _)
updateSteps(doc, upd, order) ==
    IF order = <<>> THEN <<doc>>
    ELSE <<doc>> \o updateSteps(updateConfig(doc, Head(order), upd[Head(order)]),
                                upd, Tail(order))

\* the orders a Go map iteration over the keys S can take
MapOrders(S) ==
    { o \in [1..Cardinality(S) -> S] :
        \A i, j \in 1..Cardinality(S) : i # j => o[i] # o[j] }

MaxLines  == 2
MaxKeys   == 2
MaxPasses == 2

LinePool ==
    { <<"a", " ", "=", " ", "0">>,          \* a = 0
      <<" ", "a", " ", "=", " ", "0">>,     \* indented
      <<"b", " ", "=", " ", "0">>,          \* b = 0
      <<"#", " ", "c">>,                    \* a comment
      <<>> }                                \* a blank line
KeyPool ==
    { <<"a">>, <<"b">>, <<"a", " ", "=">> }
ValuePool ==
    { <<"1">>, <<>>, <<"=", "2">>, <<"1", "\n", "b", " ", "=", " ", "0">> }

Documents ==
    { JoinLines(ls) : ls \in UNION { [1..n -> LinePool] : n \in 1..MaxLines } }
UpdateMaps ==
    UNION { [K -> ValuePool] :
            K \in { K \in SUBSET KeyPool : K # {} /\ Cardinality(K) <= MaxKeys } }

PatchInit ==
    /\ content \in Documents
    /\ updates \in UpdateMaps
    /\ passes = 0
    /\ content0 = content
    /\ afterOnce = <<>>
    /\ lastOrder = <<>>
    /\ steps = <<>>
    /\ cfgErr = "unset"
    /\ cfgEndpoint = ""

PatchIdle ==
    /\ content = <<>> /\ updates = <<>> /\ passes = 0
    /\ content0 = <<>> /\ afterOnce = <<>> /\ lastOrder = <<>> /\ steps = <<>>
    /\ cfgErr = "unset" /\ cfgEndpoint = ""

\* one run of the update loop over the whole map
PatchConfig ==
    /\ passes < MaxPasses
    /\ \E order \in MapOrders(DOMAIN updates) :
          /\ content' = applyUpdates(content, updates, order)
          /\ lastOrder' = order
          /\ steps' = updateSteps(content, updates, order)
    /\ passes' = passes + 1
    /\ afterOnce' = IF passes = 0 THEN content' ELSE afterOnce
    /\ UNCHANGED <<cfgVars, retryVars, initVars, binVars, startVars, updates, content0, cfgErr, cfgEndpoint,
                   hashVars, trustVars, snapVars>>

-----------------------------------------------------------------------------
(* fetchTrustBlock *)

Digits == {"0", "1", "2", "3", "4", "5", "6", "7", "8", "9"}

DigitValue(c) ==
    CASE c = "0" -> 0 [] c = "1" -> 1 [] c = "2" -> 2 [] c = "3" -> 3
      [] c = "4" -> 4 [] c = "5" -> 5 [] c = "6" -> 6 [] c = "7" -> 7
      [] c = "8" -> 8 [] c = "9" -> 9

\* the digits after an optional sign
UnsignedPart(s) ==
    IF s # <<>> /\ Head(s) \in {"+", "-"} THEN Tail(s) ELSE s

\* strconv.ParseInt(s, 10, 64) returns no error (the model's inputs are far
\* from the 64-bit range, so the range error does not arise)
ParseIntOk(s) ==
    /\ UnsignedPart(s) # <<>>
    /\ \A i \in 1..Len(UnsignedPart(s)) : UnsignedPart(s)[i] \in Digits

RECURSIVE DigitsValue(_)
DigitsValue(s) ==
    IF s = <<>> THEN 0
    ELSE 10 * DigitsValue(SubSeq(s, 1, Len(s) - 1)) + DigitValue(s[Len(s)])

ParseInt(s) ==
    IF s # <<>> /\ Head(s) = "-" THEN 0 - DigitsValue(UnsignedPart(s))
    ELSE DigitsValue(UnsignedPart(s))

NoBlock == [Height |-> 0, Hash |-> <<>>]

\* strings.ToLower on the characters the model uses
LowerChar(c) ==
    CASE c = "A" -> "a" [] c = "B" -> "b" [] c = "C" -> "c"
      [] c = "D" -> "d" [] c = "E" -> "e" [] c = "F" -> "f"
      [] OTHER -> c
ToLower(s) == [i \in 1..Len(s) |-> LowerChar(s[i])]

\* a plausible slip: the status test dropped
queryBlockFromRPCNoStatus(resp) ==
    IF ~resp.reachable
    THEN [err |-> "failed to query RPC endpoint", block |-> NoBlock]
    ELSE IF ~resp.decodable
    THEN [err |-> "failed to decode RPC response", block |-> NoBlock]
    ELSE IF ~ParseIntOk(resp.height)
    THEN [err |-> "failed to parse block height", block |-> NoBlock]
    ELSE [err |-> "", block |-> [Height |-> ParseInt(resp.height), Hash |-> resp.hash]]

\* a plausible change: the hash normalised to lower case
queryBlockFromRPCLower(resp) ==
    IF ~resp.reachable
    THEN [err |-> "failed to query RPC endpoint", block |-> NoBlock]
    ELSE IF resp.status # 200
    THEN [err |-> "RPC request failed with status", block |-> NoBlock]
    ELSE IF ~resp.decodable
    THEN [err |-> "failed to decode RPC response", block |-> NoBlock]
    ELSE IF ~ParseIntOk(resp.height)
    THEN [err |-> "failed to parse block height", block |-> NoBlock]
    ELSE [err |-> "",
          block |-> [Height |-> ParseInt(resp.height), Hash |-> ToLower(resp.hash)]]

\* queryBlockFromRPC against an endpoint that answers resp: client.Get, the
\* status test, the JSON decode (an absent field decodes to ""), ParseInt
queryBlockFromRPC(resp) ==
    IF ~resp.reachable
    THEN [err |-> "failed to query RPC endpoint", block |-> NoBlock]
    ELSE IF resp.status # 200
    THEN [err |-> "RPC request failed with status", block |-> NoBlock]
    ELSE IF ~resp.decodable
    THEN [err |-> "failed to decode RPC response", block |-> NoBlock]
    ELSE IF ~ParseIntOk(resp.height)
    THEN [err |-> "failed to parse block height", block |-> NoBlock]
    ELSE [err |-> "", block |-> [Height |-> ParseInt(resp.height), Hash |-> resp.hash]]

MaxEndpoints == 2

EnvNames  == {"testnet", "mainnet"}
Endpoints == {"rpc-a", "rpc-b"}

HashUpper == [i \in 1..64 |-> IF (i - 1) % 4 < 2 THEN "A" ELSE "B"]
HashLower == [i \in 1..64 |-> IF (i - 1) % 4 < 2 THEN "a" ELSE "b"]

Height1000000 == <<"1", "0", "0", "0", "0", "0", "0">>

Resp(reach, st, dec, h, hash) ==
    [reachable |-> reach, status |-> st, decodable |-> dec, height |-> h, hash |-> hash]

ResponsePool ==
    { Resp(FALSE, 0, FALSE, <<>>, <<>>),              \* connection refused
      Resp(TRUE, 500, TRUE, <<"5">>, HashLower),      \* a non-200 answer
      Resp(TRUE, 200, FALSE, <<>>, <<>>),             \* not JSON
      Resp(TRUE, 200, TRUE, <<>>, <<>>),              \* a JSON-RPC error body
      Resp(TRUE, 200, TRUE, Height1000000, HashUpper),
      Resp(TRUE, 200, TRUE, <<"5">>, HashLower),
      Resp(TRUE, 200, TRUE, <<"5">>, <<>>),           \* no block_id.hash
      Resp(TRUE, 200, TRUE, <<"7">>, <<"z", "z">>) }

EndpointLists == UNION { [1..n -> Endpoints] : n \in 0..MaxEndpoints }

\* what the operator types, with the line break (a read may also fail: eof)
HeightLines == { <<"1", "0", "0", "\n">>, <<" ", "4", "2", " ", "\n">>,
                 <<"a", "b", "c", "\n">>, <<"\n">> }
HashLines   == { HashLower \o <<"\n">>,
                 <<" ", "0", "x">> \o HashUpper \o <<" ", "\n">>,
                 <<"z", "z", "\n">>,
                 <<"0", "x", "\n">> }

\* append(rpcEndpoints, env.RPCEndpoints...) over the environments in order
RECURSIVE Flatten(_)
Flatten(order) ==
    IF order = <<>> THEN <<>>
    ELSE environments[Head(order)] \o Flatten(Tail(order))

TrustInit ==
    /\ environments \in [EnvNames -> EndpointLists]
    /\ rpcResponse \in [Endpoints -> ResponsePool]
    /\ rpcEndpoints = <<>>
    /\ tpc = "start"
    /\ idx = 0
    /\ queried = <<>>
    /\ stdinReads = 0 /\ stdinLines = <<>>
    /\ heightIn = 0
    /\ trustBlock = NoBlock
    /\ trustErr = ""

TrustIdle ==
    /\ environments = <<>> /\ rpcResponse = <<>> /\ rpcEndpoints = <<>>
    /\ tpc = "off" /\ idx = 0 /\ queried = <<>> /\ stdinReads = 0
    /\ stdinLines = <<>>
    /\ heightIn = 0 /\ trustBlock = NoBlock /\ trustErr = ""

\* fetchTrustBlockAutomatic up to its loop: the endpoints of every
\* environment, in the order the map iteration takes.  With none, it returns
\* an error and fetchTrustBlock goes on to fetchTrustBlockInteractive.
CollectEndpoints ==
    /\ tpc = "start"
    /\ \E order \in MapOrders(EnvNames) : rpcEndpoints' = Flatten(order)
    /\ IF Len(rpcEndpoints') = 0
       THEN tpc' = "readHeight" /\ idx' = idx
       ELSE tpc' = "query" /\ idx' = 1
    /\ UNCHANGED <<cfgVars, retryVars, initVars, binVars, startVars, trustCfg, queried, stdinReads, stdinLines, heightIn, trustBlock,
                   trustErr,
                   hashVars, patchVars, snapVars>>

\* a plausible slip: the operator asked as soon as one endpoint failed
AfterQueryFailedAsk(i, n) == "readHeight"

\* an endpoint failed: the loop goes on to the next endpoint, and after the
\* last one fetchTrustBlockAutomatic returns its error and fetchTrustBlock
\* turns to the operator
AfterQueryFailed(i, n) == IF i < n THEN "query" ELSE "readHeight"

\* one iteration of the loop of fetchTrustBlockAutomatic; after the last
\* endpoint failed, fetchTrustBlock goes on to fetchTrustBlockInteractive
QueryEndpoint ==
    /\ tpc = "query"
    /\ LET r == queryBlockFromRPC(rpcResponse[rpcEndpoints[idx]])
       IN  /\ queried' = Append(queried, rpcEndpoints[idx])
           /\ IF r.err = ""
              THEN /\ trustBlock' = r.block
                   /\ tpc' = "returned"
                   /\ idx' = idx
              ELSE /\ trustBlock' = trustBlock
                   /\ tpc' = AfterQueryFailed(idx, Len(rpcEndpoints))
                   /\ idx' = IF idx < Len(rpcEndpoints) THEN idx + 1 ELSE idx
    /\ UNCHANGED <<cfgVars, retryVars, initVars, binVars, startVars, trustCfg, rpcEndpoints, stdinReads, stdinLines, heightIn,
                   trustErr,
                   hashVars, patchVars, snapVars>>

\* fetchTrustBlockInteractive: the height prompt
ReadHeight ==
    /\ tpc = "readHeight"
    /\ stdinReads' = stdinReads + 1
    /\ \E eof \in BOOLEAN, line \in HeightLines :
        /\ stdinLines' = Append(stdinLines, [eof |-> eof, text |-> IF eof THEN <<>> ELSE line])
        /\ IF eof
          THEN /\ trustErr' = "failed to read height"
               /\ tpc' = "returned" /\ heightIn' = heightIn
          ELSE IF ~ParseIntOk(TrimSpace(line))
          THEN /\ trustErr' = "invalid height input"
               /\ tpc' = "returned" /\ heightIn' = heightIn
          ELSE /\ heightIn' = ParseInt(TrimSpace(line))
               /\ tpc' = "readHash" /\ trustErr' = trustErr
    /\ UNCHANGED <<cfgVars, retryVars, initVars, binVars, startVars, trustCfg, rpcEndpoints, idx, queried, trustBlock,
                   hashVars, patchVars, snapVars>>

\* fetchTrustBlockInteractive: the hash prompt and the validation
ReadHash ==
    /\ tpc = "readHash"
    /\ stdinReads' = stdinReads + 1
    /\ tpc' = "returned"
    /\ \E eof \in BOOLEAN, line \in HashLines :
        /\ stdinLines' = Append(stdinLines, [eof |-> eof, text |-> IF eof THEN <<>> ELSE line])
        /\ IF eof
          THEN trustErr' = "failed to read hash" /\ trustBlock' = trustBlock
          ELSE IF ~isValidHash(TrimSpace(line))
          THEN /\ trustErr' = "invalid hash format: should be a 64-character hex string"
               /\ trustBlock' = trustBlock
          ELSE /\ trustBlock' = [Height |-> heightIn, Hash |-> TrimSpace(line)]
               /\ trustErr' = trustErr
    /\ UNCHANGED <<cfgVars, retryVars, initVars, binVars, startVars, trustCfg, rpcEndpoints, idx, queried, heightIn,
                   hashVars, patchVars, snapVars>>

-----------------------------------------------------------------------------
(* configureStateSync, setupStateSync and the document writeConfig generates *)

Scalar(k, v)     == [key |-> k, value |-> v, children |-> <<>>]
Section(k, kids) == [key |-> k, value |-> <<>>, children |-> kids]

\* yaml.Marshal of a map: one "key: value" line per scalar, a "key:" line
\* and indented lines for a nested map (the scalars come rendered)
RECURSIVE yamlLines(_)
yamlLines(entries) ==
    IF entries = <<>> THEN <<>>
    ELSE LET e == Head(entries)
         IN  (IF e.children = <<>>
              THEN << e.key \o <<":", " ">> \o e.value >>
              ELSE << e.key \o <<":">> >> \o
                   [i \in 1..Len(e.children) |->
                       <<" ", " ", " ", " ">> \o e.children[i].key
                           \o <<":", " ">> \o e.children[i].value])
             \o yamlLines(Tail(entries))

\* writeConfig: the bytes of yaml.Marshal(data), which end with a line break
writeConfig(data) == JoinLines(yamlLines(data)) \o <<"\n">>

\* the configToml maps configureNode builds (keys in yaml's sorted order):
\* the shipped template, a template without a statesync section, and that
\* template with WithStateSync set
ConfigTomlPool ==
    { << Scalar(<<"c", "h", "a", "i", "n", "_", "i", "d">>, <<"p", "a", "c", "i", "f", "i", "c", "-", "1">>),
         Scalar(<<"m", "o", "n", "i", "k", "e", "r">>, <<"s", "e", "i", "n", "o", "d", "e">>),
         Section(<<"s", "t", "a", "t", "e", "s", "y", "n", "c">>,
                 << Scalar(<<"e", "n", "a", "b", "l", "e">>, <<"t", "r", "u", "e">>),
                    Scalar(<<"r", "p", "c", "_", "s", "e", "r", "v", "e", "r", "s">>, <<"\"", "\"">>),
                    Scalar(<<"t", "r", "u", "s", "t", "_", "h", "a", "s", "h">>, <<"\"", "\"">>),
                    Scalar(<<"t", "r", "u", "s", "t", "_", "h", "e", "i", "g", "h", "t">>, <<"0">>) >>) >>,
      << Scalar(<<"c", "h", "a", "i", "n", "_", "i", "d">>, <<"p", "a", "c", "i", "f", "i", "c", "-", "1">>),
         Scalar(<<"m", "o", "n", "i", "k", "e", "r">>, <<"s", "e", "i", "n", "o", "d", "e">>) >>,
      << Scalar(<<"c", "h", "a", "i", "n", "_", "i", "d">>, <<"p", "a", "c", "i", "f", "i", "c", "-", "1">>),
         Section(<<"s", "t", "a", "t", "e", "s", "y", "n", "c">>, << Scalar(<<"e", "n", "a", "b", "l", "e">>, <<"t", "r", "u", "e">>) >>) >> }

GeneratedDocuments == { writeConfig(c) : c \in ConfigTomlPool }

\* a config.toml an operator wrote by hand with the keys setupStateSync uses
FlatDocument ==
    JoinLines(<< <<"#", " ", "n", "o", "d", "e">>,
                 <<"s", "t", "a", "t", "e", "s", "y", "n", "c", ".", "e", "n", "a", "b", "l", "e", " ", "=", " ", "f", "a", "l", "s", "e">>,
                 <<"s", "t", "a", "t", "e", "s", "y", "n", "c", ".", "r", "p", "c", "_", "s", "e", "r", "v", "e", "r", "s", " ", "=", " ", "\"", "\"">>,
                 <<" ", " ", "s", "t", "a", "t", "e", "s", "y", "n", "c", ".", "t", "r", "u", "s", "t", "_", "h", "e", "i", "g", "h", "t", " ", "=", " ", "0">>,
                 <<"s", "t", "a", "t", "e", "s", "y", "n", "c", ".", "t", "r", "u", "s", "t", "_", "h", "a", "s", "h", " ", "=", " ", "\"", "\"">> >>)

NodeDocuments == GeneratedDocuments \cup {FlatDocument}

DigitChar(d) == CHOOSE c \in Digits : DigitValue(c) = d

\* fmt.Sprintf("%d", n)
RECURSIVE FormatNat(_)
FormatNat(n) ==
    IF n < 10 THEN <<DigitChar(n)>>
    ELSE FormatNat(n \div 10) \o <<DigitChar(n % 10)>>

FormatInt(n) == IF n < 0 THEN <<"-">> \o FormatNat(0 - n) ELSE FormatNat(n)

\* the text of an endpoint of the configuration
EndpointText(e) ==
    CASE e = "rpc-a" -> <<"r", "p", "c", "-", "a">>
      [] e = "rpc-b" -> <<"r", "p", "c", "-", "b">>
      [] OTHER -> <<>>

Quoted(s) == <<"\"">> \o s \o <<"\"">>

KeyEnable      == <<"s", "t", "a", "t", "e", "s", "y", "n", "c", ".", "e", "n", "a", "b", "l", "e">>
KeyRpcServers  == <<"s", "t", "a", "t", "e", "s", "y", "n", "c", ".", "r", "p", "c", "_", "s", "e", "r", "v", "e", "r", "s">>
KeyTrustHeight == <<"s", "t", "a", "t", "e", "s", "y", "n", "c", ".", "t", "r", "u", "s", "t", "_", "h", "e", "i", "g", "h", "t">>
KeyTrustHash   == <<"s", "t", "a", "t", "e", "s", "y", "n", "c", ".", "t", "r", "u", "s", "t", "_", "h", "a", "s", "h">>

\* the update map of setupStateSync
stateSyncUpdates(rpcEndpoint, trustHeight, trustHash) ==
    (KeyEnable :> <<"t", "r", "u", "e">>)
    @@ (KeyRpcServers :> Quoted(EndpointText(rpcEndpoint) \o <<",">>
                                  \o EndpointText(rpcEndpoint)))
    @@ (KeyTrustHeight :> FormatInt(trustHeight))
    @@ (KeyTrustHash :> Quoted(trustHash))

\* configureStateSync's loop: the first endpoint of the first environment, in
\* the order the map iteration takes, that has one ("" when none has)
RECURSIVE FirstEndpoint(_)
FirstEndpoint(order) ==
    IF order = <<>> THEN ""
    ELSE IF Len(environments[Head(order)]) > 0 THEN environments[Head(order)][1]
    ELSE FirstEndpoint(Tail(order))

\* the configurations and endpoint answers configureStateSync is run on
SyncEndpointLists == { <<>>, <<"rpc-a">>, <<"rpc-b", "rpc-a">> }
SyncResponsePool ==
    { Resp(FALSE, 0, FALSE, <<>>, <<>>),
      Resp(TRUE, 200, TRUE, Height1000000, HashUpper),
      Resp(TRUE, 200, TRUE, <<"5">>, <<>>) }

SyncTrustInit ==
    /\ TrustInit
    /\ environments \in [EnvNames -> SyncEndpointLists]
    /\ rpcResponse \in [Endpoints -> SyncResponsePool]

SyncPatchInit ==
    /\ content \in NodeDocuments
    /\ updates = <<>>
    /\ passes = 0
    /\ content0 = content
    /\ afterOnce = <<>>
    /\ lastOrder = <<>>
    /\ steps = <<>>
    /\ cfgErr = "unset"
    /\ cfgEndpoint = ""

\* configureStateSync after fetchTrustBlock returned: the error is passed
\* on, or setupStateSync runs for the first configured endpoint: it reads
\* config.toml, applies the update map and writes the file back (a failed
\* write may leave the file truncated)
ConfigureStateSync ==
    /\ tpc = "returned"
    /\ cfgErr = "unset"
    /\ IF trustErr # ""
       THEN /\ cfgErr' = "failed to fetch trust block"
            /\ UNCHANGED <<content, updates, afterOnce, cfgEndpoint>>
       ELSE \E order \in MapOrders(EnvNames) :
              IF FirstEndpoint(order) = ""
              THEN /\ cfgErr' = "no RPC endpoints configured"
                   /\ UNCHANGED <<content, updates, afterOnce, cfgEndpoint>>
              ELSE /\ cfgEndpoint' = FirstEndpoint(order)
                   /\ \E readOk \in BOOLEAN :
                         IF ~readOk
                         THEN /\ cfgErr' = "failed to read config"
                              /\ UNCHANGED <<content, updates, afterOnce>>
                         ELSE LET upd == stateSyncUpdates(FirstEndpoint(order),
                                             trustBlock.Height, trustBlock.Hash)
                              IN  \E keys \in MapOrders(DOMAIN upd), writeOk \in BOOLEAN :
                                    /\ updates' = upd
                                    /\ IF writeOk
                                       THEN /\ content' = applyUpdates(content, upd, keys)
                                            /\ cfgErr' = ""
                                       ELSE /\ content' \in {content, <<>>}
                                            /\ cfgErr' = "failed to write config"
                                    /\ afterOnce' = content'
    /\ UNCHANGED <<cfgVars, retryVars, initVars, binVars, startVars, content0, passes, lastOrder, steps, hashVars, trustVars, snapVars>>

-----------------------------------------------------------------------------
(* RestoreSnapshot, stopNode, StopNode *)

SnapshotFiles == {"data.tar.gz", "priv_validator_state.json", "wasm.tar.gz"}

\* what os.Stat / os.ReadDir see: a directory is there unless it is absent
DirExists(d) == d # "absent"

\* a plausible slip: only the data archive is required
verifySnapshotDataOnly(files) ==
    IF "data.tar.gz" \notin files THEN "required file missing" ELSE ""

\* verifySnapshot: the error it returns ("" for nil)
verifySnapshot(files) ==
    IF "data.tar.gz" \notin files THEN "required file missing"
    ELSE IF "priv_validator_state.json" \notin files THEN "required file missing"
    ELSE ""

\* a plausible slip: the error of stopNode logged and not returned
AfterStopNodeIgnored(err) == "backup_mkdir"

\* RestoreSnapshot after m.stopNode(ctx): return on error, else back up
AfterStopNode(err) == IF err # "" THEN "returned" ELSE "backup_mkdir"

\* a plausible slip: the error of backupCurrentState logged and not returned
AfterBackupIgnored(err) == "rm_data"

\* RestoreSnapshot after m.backupCurrentState(): return on error, else restore
AfterBackup(err) == IF err # "" THEN "returned" ELSE "rm_data"

\* m.isNodeRunning(): pgrep seid finds a process
isNodeRunning == nodeRunning

\* pkill -<sig> seid exits 0 only when it signalled a process; it can also
\* fail to run at all (the context cancelled, no permission)
PkillOutcomes == IF nodeRunning THEN BOOLEAN ELSE {FALSE}

MaxOps == 3

\* the heights CreateSnapshot is invoked with
Heights == {1, 2}

\* a snapshot directory: whether it exists and what each of its files holds
\* ("none": no such file; "truncated": a write that failed part-way; else
\* the state of the directory the file was taken from)
NoDir == [exists |-> FALSE, priv |-> "none", data |-> "none", wasm |-> "none"]

\* the files os.Stat finds in a snapshot directory
FilesIn(d) ==
    {f \in SnapshotFiles :
        \/ f = "data.tar.gz" /\ d.data # "none"
        \/ f = "priv_validator_state.json" /\ d.priv # "none"
        \/ f = "wasm.tar.gz" /\ d.wasm # "none"}

\* os.WriteFile, or tar -czf, that failed: the file is as it was when it
\* could not be opened, else holds part of what was to be written
FailedWrite(old) == {old, "truncated"}

SnapInit ==
    /\ op = "none" /\ pc = "idle" /\ ret = "none"
    /\ snapDirs = [h \in Heights |-> NoDir]
    /\ sealed = [h \in Heights |-> NoDir]
    /\ height = 0
    /\ ops = 0
    /\ snapFiles \in SUBSET SnapshotFiles
    /\ homeData \in {"absent", "orig"}
    /\ homeWasm \in {"absent", "orig"}
    /\ data0 = homeData /\ wasm0 = homeWasm
    /\ backupDir = "absent" /\ backupData = "none" /\ backupWasm = "none"
    /\ nodeRunning \in BOOLEAN
    /\ signals = <<>>
    /\ log = <<>>

SnapIdle ==
    /\ op = "none" /\ pc = "off" /\ ret = "none"
    /\ snapDirs = <<>> /\ sealed = <<>> /\ height = 0 /\ ops = 0
    /\ snapFiles = {} /\ homeData = "absent" /\ homeWasm = "absent"
    /\ data0 = "absent" /\ wasm0 = "absent"
    /\ backupDir = "absent" /\ backupData = "none" /\ backupWasm = "none"
    /\ nodeRunning = FALSE /\ signals = <<>> /\ log = <<>>

\* the step reached and the error returned when a step of RestoreSnapshot
\* ends with error e of the callee, wrapped as w
Goto(next, w) ==
    /\ pc' = next
    /\ ret' = IF next = "returned" THEN w ELSE ret

\* RestoreSnapshot up to the end of verifySnapshot; the snapshot path is a
\* directory CreateSnapshot made (a height) or another one (0)
VerifySnapshot ==
    /\ pc = "idle"
    /\ op' = "RestoreSnapshot"
    /\ \E path \in {0} \cup Heights :
          snapFiles' = IF path = 0 THEN snapFiles ELSE FilesIn(snapDirs[path])
    /\ IF verifySnapshot(snapFiles') # ""
       THEN Goto("returned", "snapshot verification failed")
       ELSE Goto("stop_term", "")
    /\ UNCHANGED <<cfgVars, retryVars, initVars, binVars, startVars, homeData, homeWasm, backupDir, backupData, backupWasm,
                   data0, wasm0, createVars, nodeRunning, signals, log,
                   hashVars, patchVars, trustVars>>

\* a plausible slip: the forceful signal follows the graceful one always
AfterTermAlwaysKill(delivered) == "stop_kill"

\* stopNode after pkill -TERM: the forceful signal is tried only when the run
\* of pkill returned an error, else the grace period begins
AfterTerm(delivered) == IF delivered THEN "stop_wait" ELSE "stop_kill"

\* stopNode: pkill -TERM seid
StopTerm ==
    /\ pc = "stop_term"
    /\ \E delivered \in PkillOutcomes :
          /\ Goto(AfterTerm(delivered), "")
          /\ IF delivered
             THEN /\ signals' = Append(signals, "TERM")
                  /\ log' = Append(log, "pkill_TERM")
             ELSE /\ signals' = signals
                  /\ log' = Append(log, "pkill_TERM_failed")
    /\ UNCHANGED <<cfgVars, retryVars, initVars, binVars, startVars, op, fsVars, data0, wasm0, createVars, nodeRunning,
                   hashVars, patchVars, trustVars>>

\* stopNode: pkill -KILL seid, after the graceful signal could not be sent
StopKill ==
    /\ pc = "stop_kill"
    /\ \E delivered \in PkillOutcomes :
          IF delivered
          THEN /\ signals' = Append(signals, "KILL")
               /\ log' = Append(log, "pkill_KILL")
               /\ Goto("stop_wait", "")
          ELSE /\ signals' = signals
               /\ log' = Append(log, "pkill_KILL_failed")
               /\ Goto(AfterStopNode("failed to stop node"), "failed to stop node")
    /\ UNCHANGED <<cfgVars, retryVars, initVars, binVars, startVars, op, fsVars, data0, wasm0, createVars, nodeRunning,
                   hashVars, patchVars, trustVars>>

\* stopNode: the grace period is over; pgrep seid
StopCheck ==
    /\ pc = "stop_wait"
    /\ IF isNodeRunning
       THEN /\ Goto(AfterStopNode("node process still running after stop attempt"),
                    "failed to stop node")
            /\ log' = Append(log, "stopNode_failed")
       ELSE /\ Goto(AfterStopNode(""), "")
            /\ log' = Append(log, "stopNode_ok")
    /\ UNCHANGED <<cfgVars, retryVars, initVars, binVars, startVars, op, fsVars, data0, wasm0, createVars, nodeRunning, signals,
                   hashVars, patchVars, trustVars>>

\* the node process ends after a signal reached it (it may also never do so)
NodeExits ==
    /\ pc # "off"
    /\ nodeRunning
    /\ signals # <<>>
    /\ nodeRunning' = FALSE
    /\ UNCHANGED <<cfgVars, retryVars, initVars, binVars, startVars, op, pc, ret, fsVars, data0, wasm0, createVars, signals, log,
                   hashVars, patchVars, trustVars>>

\* backupCurrentState: os.MkdirAll(backupDir)
BackupMkdir ==
    /\ pc = "backup_mkdir"
    /\ \E ok \in BOOLEAN :
          IF ok
          THEN /\ backupDir' = "present"
               /\ log' = Append(log, "backup_mkdir")
               /\ Goto("backup_data", "")
          ELSE /\ backupDir' = backupDir
               /\ log' = log
               /\ Goto(AfterBackup("failed to create backup directory"),
                       "failed to backup current state")
    /\ UNCHANGED <<cfgVars, retryVars, initVars, binVars, startVars, op, snapFiles, homeData, homeWasm, backupData, backupWasm,
                   data0, wasm0, createVars, nodeRunning, signals, hashVars, patchVars, trustVars>>

\* backupCurrentState: copyDir(dataDir, backupDir/data); without a data
\* directory os.ReadDir fails before anything is written
BackupData ==
    /\ pc = "backup_data"
    /\ \E ok \in (IF DirExists(homeData) THEN BOOLEAN ELSE {FALSE}) :
          IF ok
          THEN /\ backupData' = "copy"
               /\ log' = Append(log, "backup_data")
               /\ Goto("backup_wasm", "")
          ELSE /\ backupData' \in (IF DirExists(homeData) THEN {"none", "partial"}
                                                           ELSE {"none"})
               /\ log' = IF backupData' = "partial"
                         THEN Append(log, "backup_data_partial") ELSE log
               /\ Goto(AfterBackup("failed to backup data"),
                       "failed to backup current state")
    /\ UNCHANGED <<cfgVars, retryVars, initVars, binVars, startVars, op, snapFiles, homeData, homeWasm, backupDir, backupWasm,
                   data0, wasm0, createVars, nodeRunning, signals, hashVars, patchVars, trustVars>>

\* backupCurrentState: the wasm directory, when os.Stat finds it
BackupWasm ==
    /\ pc = "backup_wasm"
    /\ IF ~DirExists(homeWasm)
       THEN /\ backupWasm' = backupWasm
            /\ log' = Append(log, "backupCurrentState_ok")
            /\ Goto(AfterBackup(""), "")
       ELSE \E ok \in BOOLEAN :
              IF ok
              THEN /\ backupWasm' = "copy"
                   /\ log' = log \o <<"backup_wasm", "backupCurrentState_ok">>
                   /\ Goto(AfterBackup(""), "")
              ELSE /\ backupWasm' \in {"none", "partial"}
                   /\ log' = IF backupWasm' = "partial"
                             THEN Append(log, "backup_wasm_partial") ELSE log
                   /\ Goto(AfterBackup("failed to backup wasm"),
                           "failed to backup current state")
    /\ UNCHANGED <<cfgVars, retryVars, initVars, binVars, startVars, op, snapFiles, homeData, homeWasm, backupDir, backupData,
                   data0, wasm0, createVars, nodeRunning, signals, hashVars, patchVars, trustVars>>

\* restoreData: os.RemoveAll(dataDir); a failure may leave part of it removed
RemoveData ==
    /\ pc = "rm_data"
    /\ log' = Append(log, "rm_data")
    /\ \E ok \in BOOLEAN :
          IF ok
          THEN homeData' = "absent" /\ Goto("mkdir_data", "")
          ELSE /\ homeData' \in (IF DirExists(homeData) THEN {homeData, "partial"}
                                                         ELSE {homeData})
               /\ Goto("returned", "failed to restore data")
    /\ UNCHANGED <<cfgVars, retryVars, initVars, binVars, startVars, op, snapFiles, homeWasm, backupDir, backupData, backupWasm,
                   data0, wasm0, createVars, nodeRunning, signals, hashVars, patchVars, trustVars>>

\* restoreData: os.MkdirAll(dataDir)
MkdirData ==
    /\ pc = "mkdir_data"
    /\ \E ok \in BOOLEAN :
          IF ok
          THEN /\ homeData' = "empty"
               /\ log' = Append(log, "mkdir_data")
               /\ Goto("extract_data", "")
          ELSE /\ homeData' = homeData
               /\ log' = log
               /\ Goto("returned", "failed to restore data")
    /\ UNCHANGED <<cfgVars, retryVars, initVars, binVars, startVars, op, snapFiles, homeWasm, backupDir, backupData, backupWasm,
                   data0, wasm0, createVars, nodeRunning, signals, hashVars, patchVars, trustVars>>

\* restoreData: tar -xzf data.tar.gz -C dataDir; a failure may leave the
\* directory partly populated
ExtractData ==
    /\ pc = "extract_data"
    /\ log' = Append(log, "extract_data")
    /\ \E ok \in BOOLEAN :
          IF ok
          THEN homeData' = "snap" /\ Goto("wasm_stat", "")
          ELSE /\ homeData' \in {"empty", "partial"}
               /\ Goto("returned", "failed to restore data")
    /\ UNCHANGED <<cfgVars, retryVars, initVars, binVars, startVars, op, snapFiles, homeWasm, backupDir, backupData, backupWasm,
                   data0, wasm0, createVars, nodeRunning, signals, hashVars, patchVars, trustVars>>

\* RestoreSnapshot: os.Stat(wasm.tar.gz) decides whether wasm is restored
WasmStat ==
    /\ pc = "wasm_stat"
    /\ IF "wasm.tar.gz" \in snapFiles
       THEN Goto("rm_wasm", "")
       ELSE Goto("returned", "")
    /\ UNCHANGED <<cfgVars, retryVars, initVars, binVars, startVars, op, fsVars, data0, wasm0, createVars, nodeRunning, signals, log,
                   hashVars, patchVars, trustVars>>

\* restoreWasm: os.RemoveAll(wasmDir)
RemoveWasm ==
    /\ pc = "rm_wasm"
    /\ log' = Append(log, "rm_wasm")
    /\ \E ok \in BOOLEAN :
          IF ok
          THEN homeWasm' = "absent" /\ Goto("mkdir_wasm", "")
          ELSE /\ homeWasm' \in (IF DirExists(homeWasm) THEN {homeWasm, "partial"}
                                                         ELSE {homeWasm})
               /\ Goto("returned", "failed to restore wasm")
    /\ UNCHANGED <<cfgVars, retryVars, initVars, binVars, startVars, op, snapFiles, homeData, backupDir, backupData, backupWasm,
                   data0, wasm0, createVars, nodeRunning, signals, hashVars, patchVars, trustVars>>

\* restoreWasm: os.MkdirAll(wasmDir)
MkdirWasm ==
    /\ pc = "mkdir_wasm"
    /\ \E ok \in BOOLEAN :
          IF ok
          THEN /\ homeWasm' = "empty"
               /\ log' = Append(log, "mkdir_wasm")
               /\ Goto("extract_wasm", "")
          ELSE /\ homeWasm' = homeWasm
               /\ log' = log
               /\ Goto("returned", "failed to restore wasm")
    /\ UNCHANGED <<cfgVars, retryVars, initVars, binVars, startVars, op, snapFiles, homeData, backupDir, backupData, backupWasm,
                   data0, wasm0, createVars, nodeRunning, signals, hashVars, patchVars, trustVars>>

\* restoreWasm: tar -xzf wasm.tar.gz -C wasmDir
ExtractWasm ==
    /\ pc = "extract_wasm"
    /\ log' = Append(log, "extract_wasm")
    /\ \E ok \in BOOLEAN :
          IF ok
          THEN homeWasm' = "snap" /\ Goto("returned", "")
          ELSE /\ homeWasm' \in {"empty", "partial"}
               /\ Goto("returned", "failed to restore wasm")
    /\ UNCHANGED <<cfgVars, retryVars, initVars, binVars, startVars, op, snapFiles, homeData, backupDir, backupData, backupWasm,
                   data0, wasm0, createVars, nodeRunning, signals, hashVars, patchVars, trustVars>>

\* the chain manager's StopNode: pkill -TERM seid, and its exit status
StopNode ==
    /\ pc = "idle"
    /\ op' = "StopNode"
    /\ pc' = "returned"
    /\ \E delivered \in PkillOutcomes :
          IF delivered
          THEN /\ signals' = Append(signals, "TERM")
               /\ log' = Append(log, "pkill_TERM")
               /\ ret' = ""
          ELSE /\ signals' = signals
               /\ log' = Append(log, "pkill_TERM_failed")
               /\ ret' = "exit status 1"
    /\ UNCHANGED <<cfgVars, retryVars, initVars, binVars, startVars, fsVars, data0, wasm0, createVars, nodeRunning,
                   hashVars, patchVars, trustVars>>

\* CreateSnapshot: os.MkdirAll(snapshotDir), which also succeeds on a
\* directory that is there already
CreateMkdir ==
    /\ pc = "idle"
    /\ op' = "CreateSnapshot"
    /\ \E h \in Heights, ok \in BOOLEAN :
          /\ height' = h
          /\ IF ok
             THEN /\ snapDirs' = [snapDirs EXCEPT ![h].exists = TRUE]
                  /\ Goto("snap_priv", "")
             ELSE /\ snapDirs' = snapDirs
                  /\ Goto("returned", "failed to create snapshot directory")
    /\ UNCHANGED <<cfgVars, retryVars, initVars, binVars, startVars, fsVars, data0, wasm0, sealed, ops, nodeRunning,
                   signals, log, hashVars, patchVars, trustVars>>

\* backupValidatorState: copyFile(<home>/data/priv_validator_state.json);
\* os.ReadFile fails when the data directory does not hold the file
CreatePriv ==
    /\ pc = "snap_priv"
    /\ \E ok \in (IF homeData \in {"orig", "snap", "partial"} THEN BOOLEAN
                                                              ELSE {FALSE}) :
          IF ok
          THEN /\ snapDirs' = [snapDirs EXCEPT ![height].priv = homeData]
               /\ Goto("snap_data", "")
          ELSE /\ \E c \in FailedWrite(snapDirs[height].priv) :
                     snapDirs' = [snapDirs EXCEPT ![height].priv =
                                     IF homeData \in {"orig", "snap", "partial"} THEN c ELSE @]
               /\ Goto("returned", "failed to backup validator state")
    /\ UNCHANGED <<cfgVars, retryVars, initVars, binVars, startVars, op, fsVars, data0, wasm0, sealed, height, ops,
                   nodeRunning, signals, log, hashVars, patchVars, trustVars>>

\* createDataSnapshot: tar -czf data.tar.gz -C <home>/data .
CreateData ==
    /\ pc = "snap_data"
    /\ \E ok \in (IF DirExists(homeData) THEN BOOLEAN ELSE {FALSE}) :
          IF ok
          THEN /\ snapDirs' = [snapDirs EXCEPT ![height].data = homeData]
               /\ Goto("snap_wasm", "")
          ELSE /\ \E c \in FailedWrite(snapDirs[height].data) :
                     snapDirs' = [snapDirs EXCEPT ![height].data = c]
               /\ Goto("returned", "failed to create data snapshot")
    /\ UNCHANGED <<cfgVars, retryVars, initVars, binVars, startVars, op, fsVars, data0, wasm0, sealed, height, ops,
                   nodeRunning, signals, log, hashVars, patchVars, trustVars>>

\* CreateSnapshot: os.Stat(wasmDir), createWasmSnapshot when it is there, and
\* the return
CreateWasm ==
    /\ pc = "snap_wasm"
    /\ \E ok \in (IF DirExists(homeWasm) THEN BOOLEAN ELSE {TRUE}) :
          IF ok
          THEN /\ snapDirs' = [snapDirs EXCEPT ![height].wasm =
                                  IF DirExists(homeWasm) THEN homeWasm ELSE @]
               /\ Goto("returned", "")
          ELSE /\ \E c \in FailedWrite(snapDirs[height].wasm) :
                     snapDirs' = [snapDirs EXCEPT ![height].wasm = c]
               /\ Goto("returned", "failed to create wasm snapshot")
    /\ sealed' = IF ret' = "" /\ ~sealed[height].exists
                 THEN [sealed EXCEPT ![height] = snapDirs'[height]]
                 ELSE sealed
    /\ UNCHANGED <<cfgVars, retryVars, initVars, binVars, startVars, op, fsVars, data0, wasm0, height, ops,
                   nodeRunning, signals, log, hashVars, patchVars, trustVars>>

\* the operation has returned and the next one can be invoked; its backup
\* directory is a new one, named by the time
NextOperation ==
    /\ pc = "returned"
    /\ ops < MaxOps - 1
    /\ ops' = ops + 1
    /\ op' = "none" /\ pc' = "idle" /\ ret' = "none"
    /\ data0' = homeData /\ wasm0' = homeWasm
    /\ backupDir' = "absent" /\ backupData' = "none" /\ backupWasm' = "none"
    /\ signals' = <<>> /\ log' = <<>>
    /\ UNCHANGED <<cfgVars, retryVars, initVars, binVars, startVars, snapFiles, homeData, homeWasm, snapDirs, sealed,
                   height, nodeRunning, hashVars, patchVars, trustVars>>

-----------------------------------------------------------------------------
(* SyncState: startStateSync and MonitorStateSync *)

MaxPolls == 3

\* the exit status of a process the context killed
Killed == 0 - 1

CtxErr == "context canceled"

StartIdle ==
    /\ spc = "off" /\ sret = "none" /\ mpc = "off" /\ merr = ""
    /\ errCh = <<>> /\ errChClosed = FALSE /\ cancelled = FALSE
    /\ proc = "none" /\ exitStatus = 0 /\ polls = 0 /\ failedPolls = 0
    /\ observed = FALSE /\ firstEvent = "none" /\ cancelAt = "none"
    /\ waited = FALSE

StartInit ==
    /\ spc = "configure" /\ sret = "none" /\ mpc = "off" /\ merr = ""
    /\ errCh = <<>> /\ errChClosed = FALSE /\ cancelled \in BOOLEAN
    /\ proc = "none" /\ exitStatus = 0 /\ polls = 0 /\ failedPolls = 0
    /\ observed = FALSE /\ firstEvent = "none" /\ cancelAt = "none"
    /\ waited = FALSE

First(e) == IF firstEvent = "none" THEN e ELSE firstEvent

\* a plausible slip: the status of the process dropped
WaitResultIgnored(status) == ""

\* cmd.Wait(): nil for exit status 0, else the *ExitError
WaitResult(status) ==
    IF status = 0 THEN ""
    ELSE IF status = Killed THEN "signal: killed"
    ELSE "exit status 1"

\* a plausible slip: a failed poll returned as the loop's error
AfterPollFailEnds(result) ==
    IF result = "syncing" THEN "select" ELSE "returning"

\* MonitorStateSync after getNodeStatus: continue on an error, go on while
\* syncing, return once the status says syncing = false
AfterPoll(result) ==
    IF result = "failed" THEN "select"
    ELSE IF result = "syncing" THEN "select"
    ELSE "returning"

\* SyncState: configureStateSync, whose steps SpecSync follows, succeeds or
\* fails
Configure ==
    /\ spc = "configure"
    /\ \E ok \in BOOLEAN :
          IF ok THEN spc' = "start" /\ sret' = sret
          ELSE spc' = "returned" /\ sret' = "failed to configure state sync"
    /\ UNCHANGED <<cfgVars, retryVars, initVars, binVars, mpc, merr, errCh, errChClosed, cancelled, proc, exitStatus,
                   polls, failedPolls, observed, firstEvent, cancelAt, waited,
                   hashVars, patchVars, trustVars, snapVars>>

\* startStateSync: cmd.Start() (which fails when ctx is done already), then
\* the goroutine is launched and the main flow reaches its select
StartProcess ==
    /\ spc = "start"
    /\ \E ok \in (IF cancelled THEN {FALSE} ELSE BOOLEAN) :
          IF ok
          THEN /\ proc' = "running" /\ mpc' = "select" /\ spc' = "select"
               /\ sret' = sret
          ELSE /\ spc' = "returned" /\ sret' = "state sync failed: failed to start node"
               /\ UNCHANGED <<proc, mpc>>
    /\ UNCHANGED <<cfgVars, retryVars, initVars, binVars, merr, errCh, errChClosed, cancelled, exitStatus, polls,
                   failedPolls, observed, firstEvent, cancelAt, waited,
                   hashVars, patchVars, trustVars, snapVars>>

\* the governing context is cancelled
Cancel ==
    /\ spc \notin {"off", "returned"}
    /\ ~cancelled
    /\ cancelled' = TRUE
    /\ cancelAt' = IF spc = "select" THEN mpc ELSE "none"
    /\ firstEvent' = IF spc \in {"select", "wait"} THEN First("cancel") ELSE firstEvent
    /\ UNCHANGED <<cfgVars, retryVars, initVars, binVars, spc, sret, mpc, merr, errCh, errChClosed, proc, exitStatus,
                   polls, failedPolls, observed, waited,
                   hashVars, patchVars, trustVars, snapVars>>

\* exec.CommandContext: the process is killed once ctx is done
KillOnCancel ==
    /\ proc = "running"
    /\ cancelled
    /\ proc' = "exited"
    /\ exitStatus' = Killed
    /\ UNCHANGED <<cfgVars, retryVars, initVars, binVars, spc, sret, mpc, merr, errCh, errChClosed, cancelled, polls,
                   failedPolls, observed, firstEvent, cancelAt, waited,
                   hashVars, patchVars, trustVars, snapVars>>

\* seid exits by itself
ProcessExits ==
    /\ proc = "running"
    /\ proc' = "exited"
    /\ exitStatus' \in {0, 1}
    /\ firstEvent' = First("exit")
    /\ UNCHANGED <<cfgVars, retryVars, initVars, binVars, spc, sret, mpc, merr, errCh, errChClosed, cancelled, polls,
                   failedPolls, observed, cancelAt, waited,
                   hashVars, patchVars, trustVars, snapVars>>

\* MonitorStateSync: the select takes ticker.C and getNodeStatus(ctx) sends
\* its request; with ctx done the request fails at once
MonitorTick ==
    /\ mpc = "select"
    /\ polls < MaxPolls
    /\ polls' = polls + 1
    /\ IF cancelled
       THEN mpc' = AfterPoll("failed") /\ failedPolls' = failedPolls + 1
       ELSE mpc' = "polling" /\ failedPolls' = failedPolls
    /\ UNCHANGED <<cfgVars, retryVars, initVars, binVars, spc, sret, merr, errCh, errChClosed, cancelled, proc,
                   exitStatus, observed, firstEvent, cancelAt, waited,
                   hashVars, patchVars, trustVars, snapVars>>

\* MonitorStateSync: getNodeStatus returns
PollReturns ==
    /\ mpc = "polling"
    /\ \E result \in {"failed", "syncing", "done"} :
          /\ mpc' = AfterPoll(result)
          /\ failedPolls' = IF result = "failed" THEN failedPolls + 1 ELSE 0
          /\ observed' = (observed \/ result = "done")
          /\ merr' = IF mpc' = "returning" /\ result = "failed"
                     THEN "failed to query node status" ELSE merr
          /\ firstEvent' = IF mpc' = "returning" THEN First("done") ELSE firstEvent
    /\ UNCHANGED <<cfgVars, retryVars, initVars, binVars, spc, sret, errCh, errChClosed, cancelled, proc, exitStatus,
                   polls, cancelAt, waited,
                   hashVars, patchVars, trustVars, snapVars>>

\* MonitorStateSync: the select takes ctx.Done()
MonitorCancelled ==
    /\ mpc = "select"
    /\ cancelled
    /\ mpc' = "returning"
    /\ merr' = CtxErr
    /\ UNCHANGED <<cfgVars, retryVars, initVars, binVars, spc, sret, errCh, errChClosed, cancelled, proc, exitStatus,
                   polls, failedPolls, observed, firstEvent, cancelAt, waited,
                   hashVars, patchVars, trustVars, snapVars>>

\* errCh := make(chan error, 1)
ErrChCapacity == 1

\* a plausible slip: the channel made without a buffer
CanSendUnbuffered == Len(errCh) < ErrChCapacity - 1

\* a send on errCh goes through at once when the buffer has room; the main
\* flow receives in its select only, so a full buffer blocks the sender
CanSend == Len(errCh) < ErrChCapacity

\* the goroutine after MonitorStateSync returned: send the error, if any,
\* and close the channel
MonitorReport ==
    /\ mpc = "returning"
    /\ merr # "" => CanSend
    /\ errCh' = IF merr # "" THEN Append(errCh, merr) ELSE errCh
    /\ errChClosed' = TRUE
    /\ mpc' = "finished"
    /\ UNCHANGED <<cfgVars, retryVars, initVars, binVars, spc, sret, merr, cancelled, proc, exitStatus, polls,
                   failedPolls, observed, firstEvent, cancelAt, waited,
                   hashVars, patchVars, trustVars, snapVars>>

\* startStateSync: the select takes ctx.Done()
SelectCtxDone ==
    /\ spc = "select"
    /\ cancelled
    /\ spc' = "returned"
    /\ sret' = "state sync failed: state sync cancelled: " \o CtxErr
    /\ UNCHANGED <<cfgVars, retryVars, initVars, binVars, mpc, merr, errCh, errChClosed, cancelled, proc, exitStatus,
                   polls, failedPolls, observed, firstEvent, cancelAt, waited,
                   hashVars, patchVars, trustVars, snapVars>>

\* startStateSync: the select takes errCh: an error the goroutine sent, or
\* nil from the closed channel, and then the flow goes on to cmd.Wait()
SelectErrCh ==
    /\ spc = "select"
    /\ errCh # <<>> \/ errChClosed
    /\ IF errCh # <<>>
       THEN /\ spc' = "returned"
            /\ sret' = "state sync failed: state sync monitoring failed: " \o Head(errCh)
            /\ errCh' = Tail(errCh)
            /\ waited' = waited
       ELSE /\ spc' = "wait"
            /\ waited' = TRUE
            /\ UNCHANGED <<sret, errCh>>
    /\ UNCHANGED <<cfgVars, retryVars, initVars, binVars, mpc, merr, errChClosed, cancelled, proc, exitStatus, polls,
                   failedPolls, observed, firstEvent, cancelAt,
                   hashVars, patchVars, trustVars, snapVars>>

\* startStateSync: cmd.Wait() returns once the process has exited
WaitReturns ==
    /\ spc = "wait"
    /\ proc = "exited"
    /\ spc' = "returned"
    /\ sret' = IF WaitResult(exitStatus) = "" THEN ""
               ELSE "state sync failed: " \o WaitResult(exitStatus)
    /\ UNCHANGED <<cfgVars, retryVars, initVars, binVars, mpc, merr, errCh, errChClosed, cancelled, proc, exitStatus,
                   polls, failedPolls, observed, firstEvent, cancelAt, waited,
                   hashVars, patchVars, trustVars, snapVars>>

-----------------------------------------------------------------------------
(* EnsureBinary *)

\* how many times EnsureBinary is invoked
MaxCalls == 2

Latest == <<"l", "a", "t", "e", "s", "t">>
V1     == <<"v", "1">>
V2     == <<"v", "2">>

\* strings.Contains
Contains(s, sub) ==
    \E i \in 0..(Len(s) - Len(sub)) : SubSeq(s, i + 1, i + Len(sub)) = sub

\* strings.Split(s, " ")[0]
RECURSIVE FirstField(_)
FirstField(s) ==
    IF s = <<>> \/ Head(s) = " " THEN <<>>
    ELSE <<Head(s)>> \o FirstField(Tail(s))

\* the files a download can deliver, and what each prints for "version"
Binaries == {"seid-v1", "seid-v2", "other"}
VersionOutput(file) ==
    CASE file = "seid-v1" -> <<"v", "1", "\n">>
      [] file = "seid-v2" -> <<"v", "2", "\n">>
      [] file = "seid-v10" -> <<"v", "1", "0", "\n">>
      [] file = "seid-v1-failing" -> <<"v", "1", "\n">>
      [] OTHER -> <<>>

\* cmd.Output() of "<binPath> version" returns no error (seid-v1-failing
\* prints its version and exits with a status other than zero)
Runs(file) == file \in {"seid-v1", "seid-v2", "seid-v10"}

\* hex.EncodeToString(sha256.Sum(file)): lower-case hexadecimal text, a
\* different one for each file (shortened)
Sha256Hex(file) ==
    CASE file = "seid-v1" -> <<"a", "1">>
      [] file = "seid-v2" -> <<"b", "2">>
      [] file = "other" -> <<"c", "3">>
      [] OTHER -> <<"d", "4">>

MetaResponses ==
    { [reachable |-> FALSE, status |-> 0, decodable |-> FALSE, tag |-> <<>>],
      [reachable |-> TRUE, status |-> 403, decodable |-> TRUE, tag |-> V2],
      [reachable |-> TRUE, status |-> 200, decodable |-> FALSE, tag |-> <<>>],
      [reachable |-> TRUE, status |-> 200, decodable |-> TRUE, tag |-> <<>>],
      [reachable |-> TRUE, status |-> 200, decodable |-> TRUE, tag |-> V2] }

BinResponses ==
    { [reachable |-> FALSE, status |-> 0, body |-> "other"],
      [reachable |-> TRUE, status |-> 404, body |-> "other"],
      [reachable |-> TRUE, status |-> 200, body |-> "seid-v1"],
      [reachable |-> TRUE, status |-> 200, body |-> "seid-v2"],
      [reachable |-> TRUE, status |-> 200, body |-> "other"] }

\* the checksum file: "<digest>  <name>", the bare digest, the digest in
\* upper case, the digest of another file
SumResponses ==
    { [reachable |-> FALSE, status |-> 0, body |-> <<>>],
      [reachable |-> TRUE, status |-> 404, body |-> <<"a", "1">>],
      [reachable |-> TRUE, status |-> 200, body |-> <<"a", "1">> \o <<" ", " ", "s", "e", "i", "d", "\n">>],
      [reachable |-> TRUE, status |-> 200, body |-> <<"b", "2">>],
      [reachable |-> TRUE, status |-> 200, body |-> <<"B", "2">> \o <<" ", " ", "s", "e", "i", "d", "\n">>],
      [reachable |-> TRUE, status |-> 200, body |-> <<"c", "3">> \o <<"\n">>] }

BinInit ==
    /\ version \in {Latest, V1, V2}
    /\ resolved = <<>>
    /\ metaResp \in MetaResponses
    /\ binResp \in BinResponses
    /\ sumResp \in SumResponses
    /\ bpc = "start" /\ bret = "none"
    /\ binPath \in {"absent", "seid-v1", "seid-v10", "seid-v1-failing"}
    /\ binPath0 = binPath
    /\ tmpDir = "absent" /\ tmpFile = "absent"
    /\ downloaded = "none"
    /\ requests = <<>> /\ urls = <<>>
    /\ calls = 0 /\ prev = "none"

BinIdle ==
    /\ version = <<>> /\ resolved = <<>>
    /\ metaResp = <<>> /\ binResp = <<>> /\ sumResp = <<>>
    /\ bpc = "off" /\ bret = "none"
    /\ binPath = "absent" /\ binPath0 = "absent"
    /\ tmpDir = "absent" /\ tmpFile = "absent"
    /\ downloaded = "none" /\ requests = <<>> /\ urls = <<>>
    /\ calls = 0 /\ prev = "none"

\* a URL and a URL template as a sequence of parts: literal text, the verb
\* %v, the placeholder {version} of the shipped configuration, a version
Lit(t)      == [kind |-> "lit", text |-> t, ver |-> <<>>]
Verb        == [kind |-> "verb", text |-> "%v", ver |-> <<>>]
Placeholder == [kind |-> "lit", text |-> "{version}", ver |-> <<>>]
Ver(v)      == [kind |-> "version", text |-> "", ver |-> v]

\* fmt.Sprintf(format, arg) with one argument: the first verb takes it, a
\* later verb has none, and an argument no verb took is appended as EXTRA
RECURSIVE SprintfFrom(_, _, _)
SprintfFrom(format, arg, used) ==
    IF format = <<>>
    THEN IF used THEN <<>> ELSE <<Lit("%!(EXTRA string="), Ver(arg), Lit(")")>>
    ELSE IF Head(format).kind = "verb"
    THEN <<IF used THEN Lit("%!v(MISSING)") ELSE Ver(arg)>>
             \o SprintfFrom(Tail(format), arg, TRUE)
    ELSE <<Head(format)>> \o SprintfFrom(Tail(format), arg, used)

Sprintf(format, arg) == SprintfFrom(format, arg, FALSE)

\* binary_url and binary_checksum_url of the environments of the
\* configuration: written with a verb for mainnet and testnet, with the
\* shipped placeholder for devnet, not set for local
BinaryEnvironments ==
    ("mainnet" :> [BinaryURL |-> <<Lit("https://main/seid-"), Verb>>,
                   BinaryChecksumURL |-> <<Lit("https://main/seid-"), Verb, Lit(".sha256")>>])
    @@ ("testnet" :> [BinaryURL |-> <<Lit("https://test/seid-"), Verb>>,
                      BinaryChecksumURL |-> <<Lit("https://test/seid-"), Verb, Lit(".sha256")>>])
    @@ ("devnet" :> [BinaryURL |-> <<Lit("https://dev/seid-"), Placeholder>>,
                     BinaryChecksumURL |-> <<Lit("https://dev/seid-"), Placeholder, Lit(".sha256")>>])
    @@ ("local" :> [BinaryURL |-> <<>>, BinaryChecksumURL |-> <<>>])

\* m.config.Environments[name]: the zero value for a name that is not a key
BinaryConfig(name) ==
    IF name \in DOMAIN BinaryEnvironments THEN BinaryEnvironments[name]
    ELSE [BinaryURL |-> <<>>, BinaryChecksumURL |-> <<>>]

\* downloadAndInstall: the environment whose URLs it reads
DownloadEnvironment == "mainnet"

\* getLatestVersion: the URL it requests
LatestReleaseURL ==
    <<Lit("https://api.github.com/repos/sei-protocol/sei-chain/releases/latest")>>

\* a plausible slip: on a failure to resolve "latest", go on with the name
AfterLatestIgnored(err) == "check"

\* EnsureBinary after getLatestVersion: return on an error
AfterLatest(err) == IF err # "" THEN "returned" ELSE "check"

\* a plausible slip: the comparison dropped
checksumAccepted(actual, expected) == TRUE

\* verifyChecksum: actualChecksum != expectedChecksum is a mismatch
checksumMatches(actual, expected) == actual = expected

\* a plausible slip: the check for an installed binary never succeeds
isBinaryInstalledNever(file, ver) == FALSE

\* isBinaryInstalled: the command ran without error and printed the version
isBinaryInstalled(file, ver) == Runs(file) /\ Contains(VersionOutput(file), ver)

\* getLatestVersion: the error it returns ("" for nil)
getLatestVersionErr(r) ==
    IF ~r.reachable THEN "failed to get latest version"
    ELSE IF r.status # 200 THEN "unexpected status code"
    ELSE IF ~r.decodable THEN "failed to decode response"
    ELSE ""

\* downloadAndInstall returns e: the deferred os.RemoveAll(tmpDir) runs
Fail(e) ==
    /\ bpc' = "returned"
    /\ bret' = e
    /\ tmpDir' = "absent"
    /\ tmpFile' = "absent"

\* EnsureBinary: "latest" is resolved by getLatestVersion
ResolveVersion ==
    /\ bpc = "start"
    /\ IF version = Latest
       THEN /\ requests' = Append(requests, "metadata")
            /\ urls' = Append(urls, LatestReleaseURL)
            /\ bpc' = AfterLatest(getLatestVersionErr(metaResp))
            /\ bret' = IF bpc' = "returned"
                       THEN "failed to get latest version: "
                                \o getLatestVersionErr(metaResp)
                       ELSE bret
            /\ resolved' = IF getLatestVersionErr(metaResp) = ""
                           THEN metaResp.tag ELSE <<>>
       ELSE /\ resolved' = version
            /\ bpc' = "check"
            /\ UNCHANGED <<bret, requests, urls>>
    /\ UNCHANGED <<cfgVars, retryVars, initVars, binCalls, version, metaResp, binResp, sumResp, binPath, binPath0, tmpDir,
                   tmpFile, downloaded, hashVars, patchVars, trustVars, snapVars, startVars>>

\* EnsureBinary: isBinaryInstalled, and os.MkdirTemp when it is not
CheckInstalled ==
    /\ bpc = "check"
    /\ IF isBinaryInstalled(binPath, resolved)
       THEN bpc' = "returned" /\ bret' = "" /\ tmpDir' = tmpDir
       ELSE \E ok \in BOOLEAN :
              IF ok THEN bpc' = "download" /\ bret' = bret /\ tmpDir' = "present"
              ELSE /\ bpc' = "returned" /\ tmpDir' = tmpDir
                   /\ bret' = "failed to create temp directory"
    /\ UNCHANGED <<cfgVars, retryVars, initVars, binCalls, version, resolved, metaResp, binResp, sumResp, binPath, binPath0,
                   tmpFile, downloaded, requests, urls, hashVars, patchVars, trustVars, snapVars, startVars>>

\* downloadAndInstall: downloadFile(binaryURL, tmpBinPath)
DownloadBinary ==
    /\ bpc = "download"
    /\ requests' = Append(requests, "binary")
    /\ urls' = Append(urls, Sprintf(BinaryConfig(DownloadEnvironment).BinaryURL, resolved))
    /\ IF ~binResp.reachable
       THEN Fail("failed to download binary: failed to download file")
            /\ downloaded' = downloaded
       ELSE IF binResp.status # 200
       THEN Fail("failed to download binary: unexpected status code")
            /\ downloaded' = downloaded
       ELSE \E written \in {"nothing", "part", "all"} :
              IF written = "all"
              THEN /\ tmpFile' = binResp.body
                   /\ downloaded' = binResp.body
                   /\ bpc' = "checksum"
                   /\ UNCHANGED <<bret, tmpDir>>
              ELSE /\ downloaded' = downloaded
                   /\ Fail(IF written = "nothing"
                           THEN "failed to download binary: failed to create destination file"
                           ELSE "failed to download binary: failed to write file")
    /\ UNCHANGED <<cfgVars, retryVars, initVars, binCalls, version, resolved, metaResp, binResp, sumResp, binPath, binPath0,
                   hashVars, patchVars, trustVars, snapVars, startVars>>

\* downloadAndInstall: verifyChecksum(tmpBinPath, checksumURL)
VerifyChecksum ==
    /\ bpc = "checksum"
    /\ requests' = Append(requests, "checksum")
    /\ urls' = Append(urls, Sprintf(BinaryConfig(DownloadEnvironment).BinaryChecksumURL, resolved))
    /\ IF ~sumResp.reachable
       THEN Fail("checksum verification failed: failed to download checksum")
       ELSE IF sumResp.status # 200
       THEN Fail("checksum verification failed: unexpected status code")
       ELSE \E fault \in {"none", "read", "open", "hash"} :
              IF fault = "read"
              THEN Fail("checksum verification failed: failed to read checksum")
              ELSE IF fault = "open"
              THEN Fail("checksum verification failed: failed to open binary")
              ELSE IF fault = "hash"
              THEN Fail("checksum verification failed: failed to calculate checksum")
              ELSE IF ~checksumMatches(Sha256Hex(tmpFile), FirstField(sumResp.body))
              THEN Fail("checksum verification failed: checksum mismatch")
              ELSE bpc' = "install" /\ UNCHANGED <<bret, tmpDir, tmpFile>>
    /\ UNCHANGED <<cfgVars, retryVars, initVars, binCalls, version, resolved, metaResp, binResp, sumResp, binPath, binPath0,
                   downloaded, hashVars, patchVars, trustVars, snapVars, startVars>>

\* downloadAndInstall: os.Chmod, os.Rename into place, the return
Install ==
    /\ bpc = "install"
    /\ \E chmodOk \in BOOLEAN, renameOk \in BOOLEAN :
          IF ~chmodOk
          THEN Fail("failed to make binary executable") /\ binPath' = binPath
          ELSE IF ~renameOk
          THEN Fail("failed to move binary to final location") /\ binPath' = binPath
          ELSE Fail("") /\ binPath' = tmpFile
    /\ UNCHANGED <<cfgVars, retryVars, initVars, binCalls, version, resolved, metaResp, binResp, sumResp, binPath0,
                   downloaded, requests, urls, hashVars, patchVars, trustVars, snapVars, startVars>>

\* EnsureBinary is invoked again, with the same version
EnsureAgain ==
    /\ bpc = "returned"
    /\ calls < MaxCalls - 1
    /\ calls' = calls + 1
    /\ prev' = IF bret = "" /\ downloaded # "none" THEN "installed" ELSE "other"
    /\ bpc' = "start" /\ bret' = "none"
    /\ resolved' = <<>>
    /\ requests' = <<>> /\ urls' = <<>>
    /\ downloaded' = "none"
    /\ binPath0' = binPath
    /\ UNCHANGED <<cfgVars, retryVars, initVars, version, metaResp, binResp, sumResp, binPath, tmpDir, tmpFile,
                   hashVars, patchVars, trustVars, snapVars, startVars>>

-----------------------------------------------------------------------------
(* InitChain *)

\* how many times InitChain is invoked
MaxInits == 2

KChainId    == <<"c", "h", "a", "i", "n", "_", "i", "d">>
KMoniker    == <<"m", "o", "n", "i", "k", "e", "r">>
KStateSync  == <<"s", "t", "a", "t", "e", "s", "y", "n", "c">>
KEnableFlag == <<"e", "n", "a", "b", "l", "e">>
KRpcServers == <<"r", "p", "c", "_", "s", "e", "r", "v", "e", "r", "s">>
KPruning    == <<"p", "r", "u", "n", "i", "n", "g">>
YamlTrue    == <<"t", "r", "u", "e">>
YamlFalse   == <<"f", "a", "l", "s", "e">>

\* a map of Go as a function: m[k] = v
Put(m, k, v) == [x \in (DOMAIN m) \cup {k} |-> IF x = k THEN v ELSE m[x]]

\* the order yaml.Marshal writes the keys of a map in (keys of small
\* letters, "-" and "_": by character code)
Alphabet ==
    << "-", "_", "a", "b", "c", "d", "e", "f", "g", "h", "i", "j", "k", "l", "m",
       "n", "o", "p", "q", "r", "s", "t", "u", "v", "w", "x", "y", "z" >>
CharRank(c) == CHOOSE i \in 1..Len(Alphabet) : Alphabet[i] = c
KeyLess(a, b) ==
    \E i \in 1..Len(b) :
        /\ \A j \in 1..(i - 1) : j <= Len(a) /\ a[j] = b[j]
        /\ i > Len(a) \/ CharRank(a[i]) < CharRank(b[i])
RECURSIVE SortedKeys(_)
SortedKeys(S) ==
    IF S = {} THEN <<>>
    ELSE LET m == CHOOSE k \in S : \A o \in S \ {k} : KeyLess(k, o)
         IN  <<m>> \o SortedKeys(S \ {m})

ScalarValue(t) == [kind |-> "scalar", text |-> t, ref |-> 0]
MapValue(r)    == [kind |-> "map", text |-> <<>>, ref |-> r]

\* the entries yaml.Marshal walks: the keys sorted, a nested map followed
\* through its reference
sectionEntries(sec) ==
    LET keys == SortedKeys(DOMAIN sec)
    IN  [i \in 1..Len(keys) |-> Scalar(keys[i], sec[keys[i]])]
mapEntries(m, h) ==
    LET keys == SortedKeys(DOMAIN m)
    IN  [i \in 1..Len(keys) |->
            IF m[keys[i]].kind = "scalar"
            THEN Scalar(keys[i], m[keys[i]].text)
            ELSE Section(keys[i], sectionEntries(h[m[keys[i]].ref]))]

\* types.ChainConfig, the fields InitChain and what it calls read
ChainConfig(id, ver, url, accounts, path) ==
    [ChainID |-> id, Version |-> ver, GenesisURL |-> url,
     GenesisAccounts |-> accounts, BinaryPath |-> path]
ZeroChainConfig == ChainConfig(<<>>, <<>>, "", <<>>, "")

\* the environments of the configuration: a remote genesis; a remote genesis
\* and local accounts; a source directory and local accounts; no genesis
InitEnvironments ==
    ("mainnet" :> ChainConfig(<<"p", "a", "c", "i", "f", "i", "c", "-", "1">>, V1, "https://genesis", <<>>, ""))
    @@ ("testnet" :> ChainConfig(<<"a", "t", "l", "a", "n", "t", "i", "c", "-", "2">>, V2, "https://genesis", <<"admin">>, ""))
    @@ ("local" :> ChainConfig(<<"s", "e", "i", "-", "l", "o", "c", "a", "l">>, Latest, "", <<"admin">>, "/src/sei-chain"))
    @@ ("devnet" :> ChainConfig(<<"d", "e", "v", "-", "1">>, V1, "", <<>>, ""))

InitEnvNames == {"mainnet", "testnet", "local", "devnet", "staging"}

\* NodeConfigs.AppToml
AppToml == (KPruning :> ScalarValue(<<"c", "u", "s", "t", "o", "m">>))

\* NodeConfigs.ConfigToml and the nested maps it refers to: the shipped
\* template, one with state sync off, one without a statesync section
ConfigTomlTemplates ==
    { [toml |-> (KMoniker :> ScalarValue(<<"s", "e", "i", "n", "o", "d", "e">>)) @@ (KStateSync :> MapValue(1)),
       heap |-> << (KEnableFlag :> YamlTrue) @@ (KRpcServers :> <<"\"", "\"">>) >>],
      [toml |-> (KMoniker :> ScalarValue(<<"s", "e", "i", "n", "o", "d", "e">>)) @@ (KStateSync :> MapValue(1)),
       heap |-> << (KEnableFlag :> YamlFalse) @@ (KRpcServers :> <<"\"", "\"">>) >>],
      [toml |-> (KMoniker :> ScalarValue(<<"s", "e", "i", "n", "o", "d", "e">>)),
       heap |-> <<>>] }

\* the shared configuration as a value: every nested map followed
ConfigValue(envs, toml, h) ==
    [Environments |-> envs,
     AppToml |-> AppToml,
     ConfigToml |-> [k \in DOMAIN toml |->
                        IF toml[k].kind = "map" THEN h[toml[k].ref] ELSE toml[k].text]]

File(kind, text, time, accounts) ==
    [kind |-> kind, text |-> text, time |-> time, accounts |-> accounts]
Absent  == File("absent", <<>>, 0, <<>>)
OldFile == File("old", <<"o", "l", "d">>, 0, <<>>)
FileNames == {"app.toml", "config.toml", "genesis.json"}

\* initChainDir's list
InitDirsNoWasm == <<"home", "config", "data">>
InitDirs == <<"home", "config", "data", "wasm">>

\* the home directory before the first call: absent, partial, complete
PriorHomes ==
    { [dirs |-> {}, files |-> [f \in FileNames |-> Absent]],
      [dirs |-> {"home", "config"},
       files |-> [f \in FileNames |-> IF f = "config.toml" THEN OldFile ELSE Absent]],
      [dirs |-> {"home", "config", "data", "wasm"},
       files |-> [f \in FileNames |-> OldFile]] }

GenesisResponses ==
    { [reachable |-> FALSE, status |-> 0, body |-> <<>>],
      [reachable |-> TRUE, status |-> 200, body |-> <<"g", "e", "n">>],
      [reachable |-> TRUE, status |-> 404, body |-> <<"4", "0", "4">>] }

InitOptionsPool ==
    [SkipBinary : BOOLEAN, Moniker : {<<>>, <<"v", "a", "l">>},
     ChainID : {<<>>, <<"m", "y", "-", "1">>}, WithStateSync : BOOLEAN]

\* the binary manager before InitChain calls it
InitBinInit ==
    /\ version = <<>> /\ resolved = <<>>
    /\ metaResp \in {r \in MetaResponses : r.reachable /\ r.status = 200 /\ r.tag # <<>>}
    /\ binResp \in {r \in BinResponses : r.body = "seid-v2"}
    /\ sumResp \in {r \in SumResponses : r.status = 200 /\ Len(r.body) = 2}
    /\ bpc = "off" /\ bret = "none"
    /\ binPath \in {"absent", "seid-v1"}
    /\ binPath0 = binPath
    /\ tmpDir = "absent" /\ tmpFile = "absent"
    /\ downloaded = "none" /\ requests = <<>> /\ urls = <<>>
    /\ calls = 0 /\ prev = "none"

ChainInit ==
    /\ envName \in InitEnvNames
    /\ opts \in InitOptionsPool
    /\ cfgEnvs = InitEnvironments
    /\ \E t \in ConfigTomlTemplates : cfgToml = t.toml /\ heap = t.heap
    /\ config0 = ConfigValue(cfgEnvs, cfgToml, heap)
    /\ chainCfg = ZeroChainConfig
    /\ ipc = "start" /\ iret = "none"
    /\ \E h \in PriorHomes : dirs = h.dirs /\ homeFiles = h.files
    /\ dirs0 = dirs /\ homeFiles0 = homeFiles
    /\ itrace = <<>> /\ ifailed = "none"
    /\ ctxDone = FALSE
    /\ genResp \in GenesisResponses
    /\ gets = 0
    /\ now = 0 /\ icalls = 0
    /\ first = [ret |-> "none", dirs |-> {}, files |-> [f \in FileNames |-> Absent]]
    /\ builds = <<>>
    \* what InitChain never reads is not varied
    /\ opts.SkipBinary =>
          /\ metaResp.decodable /\ sumResp.body = Sha256Hex("seid-v2")
          /\ binPath = "absent"
    /\ (envName \notin DOMAIN cfgEnvs \/ InitEnvironments[envName].GenesisURL = "")
          => ~genResp.reachable

ChainIdle ==
    /\ envName = "" /\ opts = <<>> /\ cfgEnvs = <<>> /\ cfgToml = <<>> /\ heap = <<>>
    /\ config0 = <<>> /\ chainCfg = <<>>
    /\ ipc = "off" /\ iret = "none"
    /\ dirs = {} /\ homeFiles = <<>> /\ dirs0 = {} /\ homeFiles0 = <<>>
    /\ itrace = <<>> /\ ifailed = "none"
    /\ ctxDone = FALSE /\ genResp = <<>> /\ gets = 0
    /\ now = 0 /\ icalls = 0 /\ first = <<>> /\ builds = <<>>

\* a plausible slip: an environment that is not configured is taken as empty
lookupAlways(envs, name) == TRUE

\* chainCfg, ok := m.config.Environments[string(env)]
lookupOk(envs, name) == name \in DOMAIN envs
lookup(envs, name) == IF name \in DOMAIN envs THEN envs[name] ELSE ZeroChainConfig

\* a plausible slip: the error of a step dropped
AfterStepIgnored(err, next) == next

\* InitChain after each step: return on an error
AfterStep(err, next) == IF err # "" THEN "returned" ELSE next

Step(name, err, wrapped, next) ==
    /\ ipc' = AfterStep(err, next)
    /\ iret' = IF ipc' = "returned" THEN (IF err # "" THEN wrapped ELSE "") ELSE iret
    /\ ifailed' = IF err # "" THEN name ELSE ifailed

\* a plausible slip: the file opened for appending
writeFileAppend(old, new) == [new EXCEPT !.text = old.text \o new.text]

\* os.WriteFile and os.Create followed by a complete copy: the file holds
\* exactly what was written
writeFile(old, new) == new

\* a write that failed: the file as it was, or truncated
FailedFile(old) == {old, File("partial", <<>>, 0, <<>>)}

\* a plausible slip: the flag left as the template has it
forceEnableSkipped(sec) == sec

\* configureNode: statesync["enable"] = true
forceEnable(sec) == Put(sec, KEnableFlag, YamlTrue)

\* a plausible slip: local accounts looked at first
genesisSourceLocalFirst(cfg) ==
    IF Len(cfg.GenesisAccounts) > 0 THEN "local"
    ELSE IF cfg.GenesisURL # "" THEN "url"
    ELSE "none"

\* setupGenesis: which branch is taken
genesisSource(cfg) ==
    IF cfg.GenesisURL # "" THEN "url"
    ELSE IF Len(cfg.GenesisAccounts) > 0 THEN "local"
    ELSE "none"

\* InitChain: the environment looked up, the chain ID overridden in the copy
InitChain ==
    /\ ipc = "start"
    /\ IF ~lookupOk(cfgEnvs, envName)
       THEN /\ ipc' = "returned"
            /\ iret' = "environment not found in configuration"
            /\ chainCfg' = chainCfg
       ELSE /\ chainCfg' = IF opts.ChainID # <<>>
                           THEN [lookup(cfgEnvs, envName) EXCEPT !.ChainID = opts.ChainID]
                           ELSE lookup(cfgEnvs, envName)
            /\ ipc' = IF opts.SkipBinary THEN "dirs" ELSE "binary"
            /\ iret' = iret
    /\ UNCHANGED <<cfgVars, retryVars, envName, opts, cfgEnvs, cfgToml, heap, config0, dirs, homeFiles, dirs0,
                   homeFiles0, itrace, ifailed, ctxDone, genResp, gets, now, icalls, first,
                   builds, binVars, hashVars, patchVars, trustVars, snapVars, startVars>>

\* InitChain: m.binMgr.EnsureBinary(ctx, chainCfg.Version) is called
EnsureBinaryCall ==
    /\ ipc = "binary"
    /\ ipc' = "ensuring"
    /\ itrace' = Append(itrace, "binary")
    /\ version' = chainCfg.Version
    /\ bpc' = "start" /\ bret' = "none"
    /\ resolved' = <<>> /\ requests' = <<>> /\ urls' = <<>>
    /\ downloaded' = "none"
    /\ binPath0' = binPath
    /\ calls' = IF bpc = "off" THEN 0 ELSE calls + 1
    /\ prev' = IF bpc = "off" THEN "none"
               ELSE IF bret = "" /\ downloaded # "none" THEN "installed" ELSE "other"
    /\ UNCHANGED <<cfgVars, retryVars, envName, opts, cfgEnvs, cfgToml, heap, config0, chainCfg, iret, dirs,
                   homeFiles, dirs0, homeFiles0, ifailed, ctxDone, genResp, gets, now, icalls,
                   first, builds, metaResp, binResp, sumResp, binPath, tmpDir, tmpFile,
                   hashVars, patchVars, trustVars, snapVars, startVars>>

\* InitChain: EnsureBinary has returned
EnsureBinaryReturn ==
    /\ ipc = "ensuring" /\ bpc = "returned"
    /\ Step("binary", bret, "failed to ensure binary: " \o bret, "dirs")
    /\ UNCHANGED <<cfgVars, retryVars, envName, opts, cfgEnvs, cfgToml, heap, config0, chainCfg, dirs, homeFiles,
                   dirs0, homeFiles0, itrace, ctxDone, genResp, gets, now, icalls, first,
                   builds, binVars, hashVars, patchVars, trustVars, snapVars, startVars>>

\* initChainDir: os.MkdirAll on each directory of the list, in order; on a
\* directory that exists it returns nil
InitChainDir ==
    /\ ipc = "dirs"
    /\ itrace' = Append(itrace, "dirs")
    /\ \E n \in 0..Len(InitDirs) :
          /\ n < Len(InitDirs) => InitDirs[n + 1] \notin dirs
          /\ dirs' = dirs \cup {InitDirs[i] : i \in 1..n}
          /\ Step("dirs",
                  IF n < Len(InitDirs) THEN "failed to create directory" ELSE "",
                  "failed to initialize chain directory: failed to create directory",
                  "configure")
    /\ UNCHANGED <<cfgVars, retryVars, envName, opts, cfgEnvs, cfgToml, heap, config0, chainCfg, homeFiles, dirs0,
                   homeFiles0, ctxDone, genResp, gets, now, icalls, first, builds, binVars,
                   hashVars, patchVars, trustVars, snapVars, startVars>>

\* configureNode: the top level of ConfigToml copied, chain_id and moniker
\* set, the statesync map (the template's own when it has one) given
\* enable = true, then app.toml and config.toml written
ConfigureNode ==
    /\ ipc = "configure"
    /\ itrace' = Append(itrace, "config")
    /\ LET withId  == Put(cfgToml, KChainId, ScalarValue(chainCfg.ChainID))
           withMon == IF opts.Moniker # <<>>
                      THEN Put(withId, KMoniker, ScalarValue(opts.Moniker))
                      ELSE withId
           hasMap  == KStateSync \in DOMAIN withMon /\ withMon[KStateSync].kind = "map"
           newHeap == IF ~opts.WithStateSync THEN heap
                      ELSE IF hasMap
                      THEN [heap EXCEPT ![withMon[KStateSync].ref] = forceEnable(@)]
                      ELSE Append(heap, forceEnable(<<>>))
           configToml == IF opts.WithStateSync /\ ~hasMap
                         THEN Put(withMon, KStateSync, MapValue(Len(heap) + 1))
                         ELSE withMon
           app  == File("yaml", writeConfig(mapEntries(AppToml, newHeap)), 0, <<>>)
           toml == File("yaml", writeConfig(mapEntries(configToml, newHeap)), 0, <<>>)
       IN  /\ heap' = newHeap
           /\ \E failing \in {"app.toml", "config.toml", "none"} :
                 /\ CASE failing = "app.toml" ->
                           \E a \in FailedFile(homeFiles["app.toml"]) :
                               homeFiles' = [homeFiles EXCEPT !["app.toml"] = a]
                      [] failing = "config.toml" ->
                           \E c \in FailedFile(homeFiles["config.toml"]) :
                               homeFiles' = [homeFiles EXCEPT
                                           !["app.toml"] = writeFile(@, app),
                                           !["config.toml"] = c]
                      [] OTHER ->
                           homeFiles' = [homeFiles EXCEPT
                                       !["app.toml"] = writeFile(@, app),
                                       !["config.toml"] = writeFile(@, toml)]
                 /\ Step("config",
                         IF failing = "none" THEN "" ELSE "failed to write config file",
                         "failed to configure node: failed to write " \o failing,
                         "genesis")
    /\ UNCHANGED <<cfgVars, retryVars, envName, opts, cfgEnvs, cfgToml, config0, chainCfg, dirs, dirs0, homeFiles0,
                   ctxDone, genResp, gets, now, icalls, first, builds, binVars,
                   hashVars, patchVars, trustVars, snapVars, startVars>>

\* setupGenesis: the context looked at, then the source chosen; a download
\* is begun (http.Get), a local genesis is written, or nothing is done
SetupGenesis ==
    /\ ipc = "genesis"
    /\ itrace' = Append(itrace, "genesis")
    /\ IF ctxDone
       THEN /\ Step("genesis", CtxErr, "failed to setup genesis: " \o CtxErr, "returned")
            /\ UNCHANGED <<homeFiles, gets>>
       ELSE CASE genesisSource(chainCfg) = "url" ->
                   /\ ipc' = "downloading"
                   /\ gets' = gets + 1
                   /\ UNCHANGED <<iret, ifailed, homeFiles>>
              [] genesisSource(chainCfg) = "local" ->
                   /\ gets' = gets
                   /\ \E ok \in BOOLEAN :
                        IF ok
                        THEN /\ homeFiles' = [homeFiles EXCEPT !["genesis.json"] =
                                            writeFile(@, File("json", chainCfg.ChainID, now,
                                                              chainCfg.GenesisAccounts))]
                             /\ Step("genesis", "", "", "returned")
                        ELSE /\ \E g \in FailedFile(homeFiles["genesis.json"]) :
                                    homeFiles' = [homeFiles EXCEPT !["genesis.json"] = g]
                             /\ Step("genesis", "failed to write genesis file",
                                     "failed to setup genesis: failed to create local genesis: failed to write genesis file",
                                     "returned")
              [] OTHER ->
                   /\ Step("genesis", "", "", "returned")
                   /\ UNCHANGED <<homeFiles, gets>>
    /\ UNCHANGED <<cfgVars, retryVars, envName, opts, cfgEnvs, cfgToml, heap, config0, chainCfg, dirs, dirs0,
                   homeFiles0, ctxDone, genResp, now, icalls, first, builds, binVars,
                   hashVars, patchVars, trustVars, snapVars, startVars>>

\* downloadGenesis: http.Get(url) returns (the context is not handed to it and
\* the status is not looked at), the body is copied to genesis.json
DownloadGenesis ==
    /\ ipc = "downloading"
    /\ IF ~genResp.reachable
       THEN /\ Step("genesis", "failed to download genesis",
                    "failed to setup genesis: failed to download genesis: failed to download genesis",
                    "returned")
            /\ homeFiles' = homeFiles
       ELSE \E written \in {"nothing", "part", "all"} :
              CASE written = "nothing" ->
                     /\ homeFiles' = homeFiles
                     /\ Step("genesis", "failed to create genesis file",
                             "failed to setup genesis: failed to download genesis: failed to create genesis file",
                             "returned")
                [] written = "part" ->
                     /\ homeFiles' = [homeFiles EXCEPT !["genesis.json"] = File("partial", <<>>, 0, <<>>)]
                     /\ Step("genesis", "failed to write genesis file",
                             "failed to setup genesis: failed to download genesis: failed to write genesis file",
                             "returned")
                [] OTHER ->
                     /\ homeFiles' = [homeFiles EXCEPT !["genesis.json"] =
                                    writeFile(@, File("download", genResp.body, 0, <<>>))]
                     /\ Step("genesis", "", "", "returned")
    /\ UNCHANGED <<cfgVars, retryVars, envName, opts, cfgEnvs, cfgToml, heap, config0, chainCfg, dirs, dirs0,
                   homeFiles0, itrace, ctxDone, genResp, gets, now, icalls, first, builds,
                   binVars, hashVars, patchVars, trustVars, snapVars, startVars>>

\* the operator interrupts the command, setupContext's cancel(), before
\* genesis setup looks at the context or while the download is blocked (an
\* earlier interrupt is not looked at by InitChain before this point)
CancelInit ==
    /\ ipc \in {"genesis", "downloading"}
    /\ ~ctxDone
    /\ ctxDone' = TRUE
    /\ UNCHANGED <<cfgVars, retryVars, envName, opts, cfgEnvs, cfgToml, heap, config0, chainCfg, ipc, iret,
                   dirs, homeFiles, dirs0, homeFiles0, itrace, ifailed, genResp, gets, now,
                   icalls, first, builds, binVars, hashVars, patchVars, trustVars, snapVars, startVars>>

\* InitChain, having succeeded, is invoked again with the same environment
\* and options by a new command (a new context), at once or a second later
InitAgain ==
    /\ ipc = "returned" /\ iret = ""
    /\ icalls < MaxInits - 1
    /\ icalls' = icalls + 1
    /\ first' = IF icalls = 0 THEN [ret |-> iret, dirs |-> dirs, files |-> homeFiles] ELSE first
    /\ ipc' = "start" /\ iret' = "none"
    /\ chainCfg' = ZeroChainConfig
    /\ itrace' = <<>> /\ ifailed' = "none"
    /\ dirs0' = dirs /\ homeFiles0' = homeFiles
    /\ ctxDone' = FALSE
    /\ gets' = 0
    /\ now' \in {now, now + 1}
    /\ UNCHANGED <<cfgVars, retryVars, envName, opts, cfgEnvs, cfgToml, heap, config0, dirs, homeFiles, genResp,
                   builds, binVars, hashVars, patchVars, trustVars, snapVars, startVars>>

-----------------------------------------------------------------------------
(* The configuration file: SaveConfig, LoadConfig, expandPath *)

\* the Version, HomeDir and BackupDir strings of the configurations saved
ConfigVersions == { <<"1", ".", "0">>, <<"v", "2">> }
ConfigHomeDirs ==
    { <<>>, <<"~">>, <<"~", "/", ".", "s", "e", "i">>, <<"/", "d", "/", "s", "e", "i">>,
      <<"~", "s", "e", "i">>, <<"/", "o", "/", "~", "x">> }
ConfigBackupDirs == { <<"~", "/", "b", "k">>, <<"/", "b", "k">> }

\* os.UserHomeDir: $HOME, or an error when it is not set
UserHomeDirs ==
    { [err |-> TRUE, dir |-> <<>>],
      [err |-> FALSE, dir |-> <<"/", "r", "o", "o", "t">>],
      [err |-> FALSE, dir |-> <<"/", "h", "/", "u", "/">>],
      [err |-> FALSE, dir |-> <<"/">>] }

\* filepath.Clean on paths without "." and ".." elements: runs of separators
\* become one, a trailing separator goes unless the path is the root
RECURSIVE CollapseSlashes(_)
CollapseSlashes(p) ==
    IF Len(p) < 2 THEN p
    ELSE IF p[1] = "/" /\ p[2] = "/" THEN CollapseSlashes(Tail(p))
    ELSE <<p[1]>> \o CollapseSlashes(Tail(p))

Clean(p) ==
    LET q == CollapseSlashes(p)
    IN  IF q = <<>> THEN <<".">>
        ELSE IF Len(q) > 1 /\ q[Len(q)] = "/" THEN SubSeq(q, 1, Len(q) - 1)
        ELSE q

\* filepath.Join of two elements: empty elements are dropped, the rest joined
\* by a separator and cleaned
Join(a, b) ==
    IF a = <<>> /\ b = <<>> THEN <<>>
    ELSE IF a = <<>> THEN Clean(b)
    ELSE IF b = <<>> THEN Clean(a)
    ELSE Clean(a \o <<"/">> \o b)

\* expandPath: a path beginning with ~ has the ~ replaced by the user's home
\* directory, unless the home directory cannot be determined
expandPath(path, home) ==
    IF path = <<>> THEN path
    ELSE IF path[1] = "~"
         THEN IF home.err THEN path ELSE Join(home.dir, Tail(path))
         ELSE path

\* yaml.Marshal of a string scalar: the empty string, ~ (null) and text that
\* reads as a number are written in double quotes, other text plainly
IsNumberText(s) == s # <<>> /\ \A i \in 1..Len(s) : s[i] \in {"0", "1", "2", ".", "-"}
yamlMarshalString(s) ==
    IF s = <<>> \/ s = <<"~">> \/ IsNumberText(s)
    THEN <<"\"">> \o s \o <<"\"">>
    ELSE s

\* yaml.Unmarshal of a scalar into a string field: quotes are removed, a null
\* leaves the field at its zero value, other text is taken as written
yamlUnmarshalString(t) ==
    IF Len(t) >= 2 /\ t[1] = "\"" /\ t[Len(t)] = "\"" THEN SubSeq(t, 2, Len(t) - 1)
    ELSE IF t = <<"~">> \/ t = <<>> THEN <<>>
    ELSE t

\* the document yaml.Marshal writes for a configuration: the scalars under
\* the keys version, global.home_dir and global.backup_dir
yamlMarshal(c) ==
    [version    |-> yamlMarshalString(c.Version),
     home_dir   |-> yamlMarshalString(c.HomeDir),
     backup_dir |-> yamlMarshalString(c.BackupDir)]

yamlUnmarshal(d) ==
    [Version   |-> yamlUnmarshalString(d.version),
     HomeDir   |-> yamlUnmarshalString(d.home_dir),
     BackupDir |-> yamlUnmarshalString(d.backup_dir)]

NoConfig == [Version |-> <<>>, HomeDir |-> <<>>, BackupDir |-> <<>>]
NoFile   == [version |-> <<>>, home_dir |-> <<>>, backup_dir |-> <<>>]

ConfigInit ==
    /\ saved \in [Version : ConfigVersions, HomeDir : ConfigHomeDirs,
                  BackupDir : ConfigBackupDirs]
    /\ userHome \in UserHomeDirs
    /\ cfgFile = NoFile /\ cfgExists = FALSE
    /\ loaded = NoConfig
    /\ cpc = "save" /\ cret = "none"

ConfigIdle ==
    /\ saved = NoConfig /\ userHome = [err |-> TRUE, dir |-> <<>>]
    /\ cfgFile = NoFile /\ cfgExists = FALSE
    /\ loaded = NoConfig
    /\ cpc = "idle" /\ cret = "none"

\* SaveConfig(config, path): marshal and write the file
SaveConfig ==
    /\ cpc = "save"
    /\ \E writeOk \in BOOLEAN :
         IF writeOk
         THEN /\ cfgFile' = yamlMarshal(saved) /\ cfgExists' = TRUE
              /\ cpc' = "load" /\ cret' = "none"
         ELSE /\ cpc' = "done" /\ cret' = "failed to write config file"
              /\ UNCHANGED <<cfgFile, cfgExists>>
    /\ UNCHANGED <<saved, userHome, loaded>>
    /\ UNCHANGED <<retryVars, initVars, binVars, hashVars, patchVars, trustVars, snapVars,
                   startVars>>

\* LoadConfig(path): read the file, unmarshal it, expand the two directories
LoadConfig ==
    /\ cpc = "load"
    /\ \E readOk \in BOOLEAN :
         IF readOk /\ cfgExists
         THEN LET config == yamlUnmarshal(cfgFile)
              IN  /\ loaded' = [config EXCEPT
                                  !.HomeDir = expandPath(config.HomeDir, userHome),
                                  !.BackupDir = expandPath(config.BackupDir, userHome)]
                  /\ cret' = ""
         ELSE /\ cret' = "failed to read config file"
              /\ UNCHANGED loaded
    /\ cpc' = "done"
    /\ UNCHANGED <<saved, userHome, cfgFile, cfgExists>>
    /\ UNCHANGED <<retryVars, initVars, binVars, hashVars, patchVars, trustVars, snapVars,
                   startVars>>

-----------------------------------------------------------------------------
(* RetryWithContext *)

\* the largest MaxAttempts of the options tried; DefaultRetryOptions has 3
MaxAttemptsTried == 3

\* what one call of fn returns: nil ("") or an error
FnResults == {"", "e1", "e2"}

\* ctx.Err() once the context is done
CtxErrors == {"context canceled", "context deadline exceeded"}

RetryInit ==
    /\ maxAttempts \in 0..MaxAttemptsTried
    /\ attempt = 0
    /\ lastErr = ""
    /\ fnCalls = <<>>
    /\ ctxErr = ""
    /\ sawDone = FALSE
    /\ rpc = "loop" /\ rret = "none"

RetryIdle ==
    /\ maxAttempts = 0 /\ attempt = 0 /\ lastErr = "" /\ fnCalls = <<>>
    /\ ctxErr = "" /\ sawDone = FALSE
    /\ rpc = "idle" /\ rret = "none"

\* the loop condition: attempt < opts.MaxAttempts, else return lastErr
RetryLoop ==
    /\ rpc = "loop"
    /\ IF attempt < maxAttempts
       THEN rpc' = "select" /\ UNCHANGED rret
       ELSE rpc' = "returned" /\ rret' = lastErr
    /\ UNCHANGED <<maxAttempts, attempt, lastErr, fnCalls, ctxErr, sawDone>>
    /\ UNCHANGED <<cfgVars, initVars, binVars, hashVars, patchVars, trustVars, snapVars,
                   startVars>>

\* select with a default: a closed Done channel is taken and ctx.Err() is
\* returned, otherwise fn is called
RetrySelect ==
    /\ rpc = "select"
    /\ IF ctxErr # ""
       THEN /\ sawDone' = TRUE
            /\ rpc' = "returned" /\ rret' = ctxErr
       ELSE /\ rpc' = "fn"
            /\ UNCHANGED <<sawDone, rret>>
    /\ UNCHANGED <<maxAttempts, attempt, lastErr, fnCalls, ctxErr>>
    /\ UNCHANGED <<cfgVars, initVars, binVars, hashVars, patchVars, trustVars, snapVars,
                   startVars>>

\* fn returns: nil ends the retries, an error is kept and the delay begins
RetryCall ==
    /\ rpc = "fn"
    /\ \E err \in FnResults :
         /\ fnCalls' = Append(fnCalls, err)
         /\ IF err = ""
            THEN rpc' = "returned" /\ rret' = "" /\ UNCHANGED lastErr
            ELSE rpc' = "sleep" /\ lastErr' = err /\ UNCHANGED rret
    /\ UNCHANGED <<maxAttempts, attempt, ctxErr, sawDone>>
    /\ UNCHANGED <<cfgVars, initVars, binVars, hashVars, patchVars, trustVars, snapVars,
                   startVars>>

\* time.Sleep(opts.Delay) returns and the loop counts the attempt
RetrySleep ==
    /\ rpc = "sleep"
    /\ attempt' = attempt + 1
    /\ rpc' = "loop"
    /\ UNCHANGED <<maxAttempts, lastErr, fnCalls, ctxErr, sawDone, rret>>
    /\ UNCHANGED <<cfgVars, initVars, binVars, hashVars, patchVars, trustVars, snapVars,
                   startVars>>

\* the context is cancelled or its deadline passes, at any moment of the call
RetryCtxDone ==
    /\ rpc \in {"loop", "select", "fn", "sleep"}
    /\ ctxErr = ""
    /\ ctxErr' \in CtxErrors
    /\ UNCHANGED <<maxAttempts, attempt, lastErr, fnCalls, sawDone, rpc, rret>>
    /\ UNCHANGED <<cfgVars, initVars, binVars, hashVars, patchVars, trustVars, snapVars,
                   startVars>>

-----------------------------------------------------------------------------
(* SyncState: configureStateSync, then startStateSync *)

\* a plausible slip: the error of configureStateSync logged and not returned
AfterConfigureIgnored(err) == "start"

\* SyncState after m.configureStateSync(targetHeight): return on an error,
\* else go on to startStateSync
AfterConfigure(err) == IF err # "" THEN "returned" ELSE "start"

\* SyncState once configureStateSync, whose steps are the ones of
\* fetchTrustBlock and ConfigureStateSync, has returned
ConfigureReturns ==
    /\ spc = "configure"
    /\ cfgErr # "unset"
    /\ spc' = AfterConfigure(cfgErr)
    /\ sret' = IF AfterConfigure(cfgErr) = "returned"
               THEN "failed to configure state sync" ELSE sret
    /\ UNCHANGED <<mpc, merr, errCh, errChClosed, cancelled, proc, exitStatus, polls,
                   failedPolls, observed, firstEvent, cancelAt, waited>>
    /\ UNCHANGED <<cfgVars, retryVars, initVars, binVars, hashVars, patchVars, trustVars,
                   snapVars>>

-----------------------------------------------------------------------------
(* Specifications *)

HashNext == ValidateHash
InitHash == HashInit /\ PatchIdle /\ TrustIdle /\ SnapIdle /\ StartIdle /\ BinIdle /\ ChainIdle
    /\ ConfigIdle /\ RetryIdle
SpecHash == InitHash /\ [][HashNext]_vars

PatchNext == PatchConfig
InitPatch == PatchInit /\ HashIdle /\ TrustIdle /\ SnapIdle /\ StartIdle /\ BinIdle /\ ChainIdle
    /\ ConfigIdle /\ RetryIdle
SpecPatch == InitPatch /\ [][PatchNext]_vars

TrustNext == CollectEndpoints \/ QueryEndpoint \/ ReadHeight \/ ReadHash
InitTrust == TrustInit /\ HashIdle /\ PatchIdle /\ SnapIdle /\ StartIdle /\ BinIdle /\ ChainIdle
    /\ ConfigIdle /\ RetryIdle
SpecTrust == InitTrust /\ [][TrustNext]_vars

SyncNext == TrustNext \/ ConfigureStateSync
InitSync == SyncTrustInit /\ SyncPatchInit /\ HashIdle /\ SnapIdle /\ StartIdle /\ BinIdle /\ ChainIdle
    /\ ConfigIdle /\ RetryIdle
SpecSync == InitSync /\ [][SyncNext]_vars

\* SyncState up to the launch of the node process; SpecStart follows the
\* flow from there
SyncStateNext == TrustNext \/ ConfigureStateSync \/ ConfigureReturns \/ StartProcess
InitSyncState ==
    SyncTrustInit /\ SyncPatchInit /\ StartInit /\ HashIdle /\ SnapIdle /\ BinIdle
    /\ ChainIdle /\ ConfigIdle /\ RetryIdle
SpecSyncState == InitSyncState /\ [][SyncStateNext]_vars

StartNext ==
    \/ Configure \/ StartProcess \/ Cancel \/ KillOnCancel \/ ProcessExits
    \/ MonitorTick \/ PollReturns \/ MonitorCancelled \/ MonitorReport
    \/ SelectCtxDone \/ SelectErrCh \/ WaitReturns
InitStart == StartInit /\ HashIdle /\ PatchIdle /\ TrustIdle /\ SnapIdle /\ BinIdle /\ ChainIdle
    /\ ConfigIdle /\ RetryIdle
SpecStart == InitStart /\ [][StartNext]_vars

\* Go's select picks among its ready cases at random and the ticker's period
\* is long against a request that fails at once, so a case that stays or
\* keeps becoming ready is taken; the scheduler runs every goroutine
FairStart ==
    /\ SF_vars(MonitorCancelled)
    /\ WF_vars(PollReturns)
    /\ WF_vars(MonitorReport)
SpecStartFair == SpecStart /\ FairStart

BinNext ==
    \/ ResolveVersion \/ CheckInstalled \/ DownloadBinary \/ VerifyChecksum
    \/ Install \/ EnsureAgain
InitBin ==
    BinInit /\ HashIdle /\ PatchIdle /\ TrustIdle /\ SnapIdle /\ StartIdle /\ ChainIdle
    /\ ConfigIdle /\ RetryIdle
SpecBin == InitBin /\ [][BinNext]_vars

ChainNext ==
    \/ InitChain \/ EnsureBinaryCall \/ EnsureBinaryReturn
    \/ ResolveVersion \/ CheckInstalled \/ DownloadBinary \/ VerifyChecksum \/ Install
    \/ InitChainDir \/ ConfigureNode \/ SetupGenesis \/ DownloadGenesis
    \/ CancelInit \/ InitAgain
InitInitChain ==
    InitBinInit /\ ChainInit /\ HashIdle /\ PatchIdle /\ TrustIdle /\ SnapIdle /\ StartIdle
    /\ ConfigIdle /\ RetryIdle
SpecInitChain == InitInitChain /\ [][ChainNext]_vars

ConfigNext == SaveConfig \/ LoadConfig
InitConfig ==
    ConfigInit /\ HashIdle /\ PatchIdle /\ TrustIdle /\ SnapIdle /\ StartIdle /\ BinIdle
    /\ ChainIdle /\ RetryIdle
SpecConfig == InitConfig /\ [][ConfigNext]_vars

RetryNext == RetryLoop \/ RetrySelect \/ RetryCall \/ RetrySleep \/ RetryCtxDone
InitRetry ==
    RetryInit /\ HashIdle /\ PatchIdle /\ TrustIdle /\ SnapIdle /\ StartIdle /\ BinIdle
    /\ ChainIdle /\ ConfigIdle
SpecRetry == InitRetry /\ [][RetryNext]_vars

Init == SnapInit /\ HashIdle /\ PatchIdle /\ TrustIdle /\ StartIdle /\ BinIdle /\ ChainIdle
    /\ ConfigIdle /\ RetryIdle
Next ==
    \/ VerifySnapshot \/ StopTerm \/ StopKill \/ StopCheck \/ NodeExits
    \/ BackupMkdir \/ BackupData \/ BackupWasm
    \/ RemoveData \/ MkdirData \/ ExtractData \/ WasmStat
    \/ RemoveWasm \/ MkdirWasm \/ ExtractWasm
    \/ StopNode
    \/ CreateMkdir \/ CreatePriv \/ CreateData \/ CreateWasm \/ NextOperation
Spec == Init /\ [][Next]_vars

-----------------------------------------------------------------------------
(* C1 *)

LiveMutations   == {"rm_data", "mkdir_data", "extract_data",
                    "rm_wasm", "mkdir_wasm", "extract_wasm"}
BackupMutations == {"backup_mkdir", "backup_data", "backup_data_partial",
                    "backup_wasm", "backup_wasm_partial"}

\* some step of S was taken
Took(S) == \E i \in 1..Len(log) : log[i] \in S

\* every step of S was taken after the step e
EachAfter(S, e) ==
    \A i \in 1..Len(log) :
        log[i] \in S => \E j \in 1..(i - 1) : log[j] = e

\* C1: in RestoreSnapshot the backup of the data directory (and of wasm, when
\* present) has completed before the live data or wasm directory is removed
\* or written, also when the restore fails afterwards; when the backup step
\* fails the live directories are unchanged.
C1_BackupBeforeRestore ==
    op = "RestoreSnapshot" =>
        /\ EachAfter(LiveMutations, "backupCurrentState_ok")
        /\ (Took(LiveMutations) \/ homeData # data0 \/ homeWasm # wasm0) =>
              /\ backupDir = "present"
              /\ backupData = "copy"
              /\ DirExists(wasm0) => backupWasm = "copy"
        /\ (pc = "returned" /\ ret = "failed to backup current state") =>
              /\ ~Took(LiveMutations)
              /\ homeData = data0 /\ homeWasm = wasm0

\* the restore failed in mid-extraction, after the backup was taken
C1_Witness ==
    /\ op = "RestoreSnapshot"
    /\ pc = "returned"
    /\ ret = "failed to restore data"
    /\ homeData = "partial"
    /\ backupData = "copy" /\ backupWasm = "copy"

-----------------------------------------------------------------------------
(* C2 *)

\* C2: RestoreSnapshot on a snapshot path that lacks data.tar.gz or
\* priv_validator_state.json fails, having sent no signal, created no backup
\* directory and changed neither live directory.
C2_IncompleteSnapshotRefused ==
    ( /\ op = "RestoreSnapshot"
      /\ \/ "data.tar.gz" \notin snapFiles
         \/ "priv_validator_state.json" \notin snapFiles )
    => /\ pc = "returned"
       /\ ret = "snapshot verification failed"
       /\ signals = <<>>
       /\ log = <<>>
       /\ backupDir = "absent"
       /\ homeData = data0 /\ homeWasm = wasm0

\* only the validator state is missing, and a node is running
C2_Witness ==
    /\ op = "RestoreSnapshot"
    /\ pc = "returned"
    /\ snapFiles = {"data.tar.gz", "wasm.tar.gz"}
    /\ nodeRunning
    /\ data0 = "orig"

-----------------------------------------------------------------------------
(* C3 *)

\* C3: in RestoreSnapshot no filesystem mutation happens unless stopNode has
\* returned success before it; when stopNode fails, RestoreSnapshot fails with
\* the live state and the backup directory unchanged.
C3_StopBeforeMutation ==
    op = "RestoreSnapshot" =>
        /\ EachAfter(LiveMutations \cup BackupMutations, "stopNode_ok")
        /\ (\A i \in 1..Len(log) : log[i] # "stopNode_ok") =>
              /\ homeData = data0 /\ homeWasm = wasm0
              /\ backupDir = "absent" /\ backupData = "none" /\ backupWasm = "none"
        /\ Took({"stopNode_failed", "pkill_KILL_failed"}) =>
              /\ pc = "returned"
              /\ ret = "failed to stop node"

\* the node got the graceful signal and was still there after the grace period
C3_Witness ==
    /\ op = "RestoreSnapshot"
    /\ pc = "returned"
    /\ ret = "failed to stop node"
    /\ signals = <<"TERM">>
    /\ nodeRunning
    /\ data0 = "orig"

-----------------------------------------------------------------------------
(* C4 *)

\* C4: whenever a Stop operation (stopNode of the state manager, StopNode of
\* the chain manager) returns success, no node process is running at that
\* moment.
C4_StoppedOnSuccess ==
    /\ (op = "RestoreSnapshot" /\ pc = "backup_mkdir") => ~nodeRunning
    /\ (op = "StopNode" /\ pc = "returned" /\ ret = "") => ~nodeRunning

-----------------------------------------------------------------------------
(* C7 *)

\* the string with one optional leading "0x" removed
C7Body(s) ==
    IF Len(s) >= 2 /\ s[1] = "0" /\ s[2] = "x" THEN [i \in 1..(Len(s) - 2) |-> s[i + 2]] ELSE s

\* C7: hash validation accepts a string exactly when, after removal of one
\* optional leading "0x", it has exactly 64 characters, all hexadecimal digits.
C7_HashValidation ==
    hashResult # "unset" =>
        ( hashResult = "valid" <=>
            /\ Len(C7Body(hashInput)) = 64
            /\ \A i \in 1..Len(C7Body(hashInput)) : C7Body(hashInput)[i] \in HexDigits )

\* an accepted input that carried the prefix
C7_Witness ==
    /\ hashResult = "valid"
    /\ Len(hashInput) = 66

-----------------------------------------------------------------------------
(* C10 *)

\* C10 (as stated): idempotent for every document and every update map
C10_IdempotentAnyMap ==
    passes >= 2 => content = afterOnce

NoSpaceIn(s)   == \A i \in 1..Len(s) : ~IsSpace(s[i])
NoNewlineIn(s) == \A i \in 1..Len(s) : s[i] # "\n"

\* C10 (amended): for every document and every update map whose keys hold no
\* white space and whose values hold no line break, applying the map twice, in
\* any key order, yields the document obtained by applying it once.
C10_Idempotent ==
    ( /\ passes >= 2
      /\ \A k \in DOMAIN updates : NoSpaceIn(k) /\ NoNewlineIn(updates[k]) )
    => content = afterOnce

\* two keys were applied twice and the patch changed the document
C10_Witness ==
    /\ passes = 2
    /\ Cardinality(DOMAIN updates) = 2
    /\ \A k \in DOMAIN updates : NoSpaceIn(k) /\ NoNewlineIn(updates[k])
    /\ content # content0

-----------------------------------------------------------------------------
(* C5 *)

\* the endpoint's answer is a success: HTTP 200 and a decodable body whose
\* header height is a base-10 integer
C5RespondsSuccessfully(r) ==
    /\ r.reachable /\ r.status = 200 /\ r.decodable
    /\ r.height \in {<<"5">>, <<"7">>, Height1000000}

C5HeightOf(h) ==
    CASE h = <<"5">> -> 5 [] h = <<"7">> -> 7 [] h = Height1000000 -> 1000000

C5Successes ==
    { i \in 1..Len(rpcEndpoints) : C5RespondsSuccessfully(rpcResponse[rpcEndpoints[i]]) }

C5First == CHOOSE i \in C5Successes : \A j \in C5Successes : i <= j

-----------------------------------------------------------------------------
(* C6 *)

\* C6: when no environment configures any RPC endpoint, resolution fails at
\* once with a configuration error and never reads from standard input.
C6_NoPromptWithoutEndpoints ==
    (tpc \notin {"off", "start"} /\ rpcEndpoints = <<>>) =>
        /\ stdinReads = 0
        /\ tpc = "returned" => trustErr = "no RPC endpoints configured"

-----------------------------------------------------------------------------
(* C8 *)

\* C8: every anchor resolution returns, from an endpoint or from the
\* operator, has a hash that passes hash validation.
C8_AnchorHashValid ==
    (tpc = "returned" /\ trustErr = "") => isValidHash(trustBlock.Hash)

-----------------------------------------------------------------------------
(* C9 *)

C9Scenario ==
    /\ tpc = "returned"
    /\ rpcEndpoints = <<"rpc-a", "rpc-b">>
    /\ rpcResponse["rpc-a"] = Resp(TRUE, 200, TRUE, Height1000000, HashUpper)

\* C9 (as stated): the anchor carries the lower-case form of the hash (aabb...)
C9_LowerCasedHash ==
    C9Scenario =>
        /\ trustErr = ""
        /\ trustBlock = [Height |-> 1000000, Hash |-> HashLower]
        /\ queried = <<"rpc-a">>

\* C9 (amended): when the first endpoint returns a decodable block at height
\* 1000000 whose hash is written AABB..., the resolved anchor has that height
\* and the hash exactly as the endpoint wrote it, and the second endpoint is
\* never queried.
C9_HashAsWritten ==
    C9Scenario =>
        /\ trustErr = ""
        /\ trustBlock = [Height |-> 1000000, Hash |-> HashUpper]
        /\ queried = <<"rpc-a">>

\* the scenario: testnet alone lists rpc-a and rpc-b, rpc-b would answer too
C9_Witness ==
    /\ C9Scenario
    /\ environments["testnet"] = <<"rpc-a", "rpc-b">>
    /\ environments["mainnet"] = <<>>
    /\ C5RespondsSuccessfully(rpcResponse["rpc-b"])

-----------------------------------------------------------------------------
(* C11 *)

\* the lines of a document whose trimmed form starts with "<key> ="
C11Hits(lines, key) ==
    { i \in 1..Len(lines) : HasPrefix(TrimSpace(lines[i]), key \o <<" ", "=">>) }

\* one call: the line count is kept, the first matching line reads
\* "<key> = <value>", every other line is as it was and where it was
C11Frame(before, key, value, after) ==
    LET old  == SplitLines(before)
        new  == SplitLines(after)
        hits == C11Hits(old, key)
    IN  /\ Len(new) = Len(old)
        /\ \A i \in 1..Len(old) :
              IF i \in hits /\ \A j \in hits : i <= j
              THEN new[i] = key \o <<" ", "=", " ">> \o value
              ELSE new[i] = old[i]

\* C11 (as stated): for every key and every value
C11_FrameAnyValue ==
    passes >= 1 =>
        /\ Len(steps) = Len(lastOrder) + 1
        /\ content = steps[Len(steps)]
        /\ \A j \in 1..Len(lastOrder) :
              C11Frame(steps[j], lastOrder[j], updates[lastOrder[j]], steps[j + 1])
        /\ Len(SplitLines(content)) = Len(SplitLines(content0))

\* C11 (amended): for each key of the update map whose value holds no line
\* break, the Config Patcher rewrites only the first line whose trimmed form
\* starts with "<key> ="; every other line, later lines with the same key,
\* comments and blank lines included, is preserved verbatim and in place, and
\* a key that matches no line is not inserted; when no value of the map holds
\* a line break the number of lines never changes.
C11_Frame ==
    passes >= 1 =>
        /\ Len(steps) = Len(lastOrder) + 1
        /\ content = steps[Len(steps)]
        /\ \A j \in 1..Len(lastOrder) :
              NoNewlineIn(updates[lastOrder[j]]) =>
                  C11Frame(steps[j], lastOrder[j], updates[lastOrder[j]], steps[j + 1])
        /\ (\A k \in DOMAIN updates : NoNewlineIn(updates[k])) =>
              Len(SplitLines(content)) = Len(SplitLines(content0))

\* two lines carry the key a: the first was rewritten, the second kept, and
\* the key b, which matches no line, was not inserted
C11_Witness ==
    /\ passes = 1
    /\ DOMAIN updates = {<<"a">>, <<"b">>}
    /\ updates[<<"a">>] = <<"1">>
    /\ NoNewlineIn(updates[<<"b">>])
    /\ SplitLines(content0) = << <<"a", " ", "=", " ", "0">>,
                                 <<" ", "a", " ", "=", " ", "0">> >>
    /\ SplitLines(content) = << <<"a", " ", "=", " ", "1">>,
                                <<" ", "a", " ", "=", " ", "0">> >>

-----------------------------------------------------------------------------
(* C12 *)

\* the document sets the state-sync key k to the text v: a line that reads
\* "statesync.<k> = <v>", the form the patcher writes, or "<k>: <v>", the
\* form the generated document has
C12Records(k, v) ==
    \E i \in 1..Len(SplitLines(content)) :
        \/ TrimSpace(SplitLines(content)[i])
               = <<"s", "t", "a", "t", "e", "s", "y", "n", "c", ".">> \o k \o <<" ", "=", " ">> \o v
        \/ TrimSpace(SplitLines(content)[i]) = k \o <<":", " ">> \o v

\* C12: after the configuration step of SyncState succeeded on a node
\* document the Chain Initializer generated, the document records
\* sync-enabled = true, an RPC server list of one configured endpoint written
\* twice with a comma between, and the trust height and trust hash of the
\* resolved anchor.
C12_GeneratedDocumentPatched ==
    (cfgErr = "" /\ content0 \in GeneratedDocuments) =>
        /\ C12Records(<<"e", "n", "a", "b", "l", "e">>, <<"t", "r", "u", "e">>)
        /\ \E n \in EnvNames :
              \E i \in 1..Len(environments[n]) :
                 C12Records(<<"r", "p", "c", "_", "s", "e", "r", "v", "e", "r", "s">>,
                            Quoted(EndpointText(environments[n][i]) \o <<",">>
                                   \o EndpointText(environments[n][i])))
        /\ C12Records(<<"t", "r", "u", "s", "t", "_", "h", "e", "i", "g", "h", "t">>, FormatInt(trustBlock.Height))
        /\ C12Records(<<"t", "r", "u", "s", "t", "_", "h", "a", "s", "h">>, Quoted(trustBlock.Hash))

-----------------------------------------------------------------------------
(* C13 *)

\* C13: SyncState returns success only if the monitoring loop observed a
\* status with syncing = false and the launched node process exited with
\* status zero; every other execution that returns, returns an error.
C13_SuccessNeedsBoth ==
    spc = "returned" =>
        /\ sret = "" => (observed /\ proc = "exited" /\ exitStatus = 0)
        /\ ~(observed /\ proc = "exited" /\ exitStatus = 0) =>
              sret \notin {"", "none"}

\* success after a failed poll, a poll that saw the node syncing and one
\* that saw it done
C13_Witness ==
    /\ spc = "returned"
    /\ sret = ""
    /\ polls = 3
    /\ waited

-----------------------------------------------------------------------------
(* C14 *)

\* C14: in the state-sync flow whichever of process exit, poll-loop
\* completion and cancellation happens first determines the outcome: when
\* the launched process exits first, the operation finishes with the outcome
\* of that exit.
C14_FirstEventDecides ==
    (spc = "returned" /\ firstEvent = "exit") =>
        sret = (IF exitStatus = 0 THEN ""
                ELSE "state sync failed: " \o WaitResult(exitStatus))

-----------------------------------------------------------------------------
(* C15 *)

C15CancellationErrors ==
    { "state sync failed: state sync cancelled: " \o CtxErr,
      "state sync failed: state sync monitoring failed: " \o CtxErr }

\* C15: when the context is cancelled while the monitor is running (it waits
\* in its select or has a poll under way) and the main flow waits in its
\* select, SyncState returns an error that wraps the cancellation cause,
\* whichever select branch fires, and does not wait for the node process.
C15_CancelPropagates ==
    (spc \in {"wait", "returned"} /\ cancelAt \in {"select", "polling"}) =>
        /\ ~waited
        /\ sret \in C15CancellationErrors

-----------------------------------------------------------------------------
(* C16 *)

C16MonitorEnded == mpc \in {"returning", "finished"}

\* C16: the poll loop ends only with success after a poll that reported
\* syncing = false, or with the cancellation error after the context was
\* cancelled; a failed poll never ends the loop, however many fail in a row;
\* after cancellation the loop eventually exits.
C16_PollLoopExits ==
    /\ [](C16MonitorEnded =>
             /\ merr = "" => observed
             /\ merr # "" => (merr = CtxErr /\ cancelled))
    /\ [][failedPolls' > failedPolls => mpc' = "select"]_vars
    /\ ((cancelled /\ mpc \in {"select", "polling"}) ~> C16MonitorEnded)

\* three polls failed in a row, then the context was cancelled and the loop
\* returned the cancellation error
C16_Witness ==
    /\ failedPolls = 3
    /\ mpc = "finished"
    /\ merr = CtxErr
    /\ errChClosed

-----------------------------------------------------------------------------
(* C17 *)

\* C17: whenever CreateSnapshot returns success, the snapshot directory
\* contains data.tar.gz and priv_validator_state.json (it passes snapshot
\* verification) and contains wasm.tar.gz if and only if the home directory
\* had a wasm subdirectory; with no wasm subdirectory it holds exactly those
\* two files.
C17_SnapshotComplete ==
    (op = "CreateSnapshot" /\ pc = "returned" /\ ret = "") =>
        /\ snapDirs[height].exists
        /\ verifySnapshot(FilesIn(snapDirs[height])) = ""
        /\ ("wasm.tar.gz" \in FilesIn(snapDirs[height])) <=> DirExists(wasm0)
        /\ ~DirExists(wasm0) =>
              FilesIn(snapDirs[height]) = {"data.tar.gz", "priv_validator_state.json"}

-----------------------------------------------------------------------------
(* C18 *)

\* C18: once CreateSnapshot has reported success for a snapshot directory, no
\* later operation of the Snapshot Manager changes the contents of that
\* directory.
C18_SnapshotNeverMutated ==
    \A h \in Heights : sealed[h].exists => snapDirs[h] = sealed[h]

-----------------------------------------------------------------------------
(* C19 *)

C19Mismatch == "checksum verification failed: checksum mismatch"

C19OtherVerifyErrors ==
    { "checksum verification failed: " \o e :
        e \in { "failed to download checksum", "unexpected status code",
                "failed to read checksum", "failed to open binary",
                "failed to calculate checksum" } }

\* the download path ended in success: the file was moved into place
C19Installed == bpc = "returned" /\ bret = "" /\ downloaded # "none"

-----------------------------------------------------------------------------
(* C20 *)

C20MetadataFailed ==
    /\ version = Latest
    /\ ~metaResp.reachable \/ metaResp.status # 200 \/ ~metaResp.decodable

C20Errors ==
    { "failed to get latest version: " \o e :
        e \in { "failed to get latest version", "unexpected status code",
                "failed to decode response" } }

\* C20: EnsureBinary("latest"), when the release-metadata request fails
\* (endpoint unreachable, status other than 200, body not decodable), returns
\* an error beginning "failed to get latest version"; the metadata request is
\* the only request made, no temporary file is written and the installation
\* path holds what it held before.
C20_LatestFailureStops ==
    C20MetadataFailed =>
        /\ bpc \in {"start", "returned"}
        /\ bpc = "returned" => bret \in C20Errors /\ requests = <<"metadata">>
        /\ \A i \in 1..Len(requests) : requests[i] = "metadata"
        /\ downloaded = "none" /\ tmpDir = "absent" /\ tmpFile = "absent"
        /\ binPath = binPath0

\* the endpoint answered 200 with a body that is not JSON, a binary installed
C20_Witness ==
    /\ C20MetadataFailed
    /\ metaResp.reachable /\ metaResp.status = 200
    /\ bpc = "returned" /\ bret = "failed to get latest version: failed to decode response"
    /\ binPath0 = "seid-v1"

-----------------------------------------------------------------------------
(* C21 *)

\* C21 as stated: EnsureBinary called with a concrete version, when the
\* version output of the installed binary contains that version, returns
\* success having made no request and leaving the installation path as it
\* was; and a call that follows a successful install makes no request.
C21_AlreadyInstalledAnyBinary ==
    /\ ( /\ version # Latest /\ bpc = "returned"
         /\ Contains(VersionOutput(binPath0), version) )
       => bret = "" /\ requests = <<>> /\ binPath = binPath0
    /\ (version # Latest /\ prev = "installed") => requests = <<>>

\* C21, amended: EnsureBinary called with a concrete version, when the
\* installed binary's version command exits with status zero and its output
\* contains that version, makes no request, creates no temporary directory,
\* leaves the installation path as it was and returns success; this holds of
\* a call that follows a successful install when the binary just installed
\* reports the version so.
C21_AlreadyInstalled ==
    ( /\ version # Latest
      /\ Runs(binPath0) /\ Contains(VersionOutput(binPath0), version) )
    => /\ bpc \in {"start", "check", "returned"}
       /\ bpc = "returned" => bret = ""
       /\ requests = <<>>
       /\ tmpDir = "absent" /\ downloaded = "none"
       /\ binPath = binPath0

\* the second call, after the first installed a binary that reports v2
C21_Witness ==
    /\ version = V2 /\ calls = 1 /\ prev = "installed"
    /\ binPath0 = "seid-v2"
    /\ bpc = "returned" /\ bret = "" /\ requests = <<>>

-----------------------------------------------------------------------------
(* C22 *)

\* C22: when the environment configures a local binary path, EnsureBinary
\* runs the build command in that directory instead of downloading: it makes
\* no request, one build command has run there, and it returns success
\* exactly when that command exited with status zero.
C22_LocalBuildInsteadOfDownload ==
    ( /\ ipc \notin {"off", "start", "binary"}
      /\ itrace # <<>> /\ itrace[1] = "binary"
      /\ chainCfg.BinaryPath # ""
      /\ bpc = "returned" )
    => /\ requests = <<>> /\ downloaded = "none"
       /\ Len(builds) = 1
       /\ builds[1].dir = chainCfg.BinaryPath
       /\ (bret = "") <=> (builds[1].exit = 0)

-----------------------------------------------------------------------------
(* C23 *)

C23Expected ==
    (IF opts.SkipBinary THEN <<>> ELSE <<"binary">>) \o <<"dirs", "config", "genesis">>

C23IsPrefix(a, b) == Len(a) <= Len(b) /\ SubSeq(b, 1, Len(a)) = a

\* what a step leaves when it succeeded
C23Succeeded(step) ==
    CASE step = "binary" -> bpc = "returned" /\ bret = ""
      [] step = "dirs" -> {"home", "config", "data", "wasm"} \subseteq dirs
      [] step = "config" -> /\ homeFiles["app.toml"].kind = "yaml"
                            /\ homeFiles["config.toml"].kind = "yaml"
      [] OTHER -> TRUE

\* C23: within InitChain the steps start in the order binary provisioning
\* (unless skipped), directory creation, configuration writing, genesis
\* setup; a step starts only when every earlier one succeeded; a failing
\* step is the last one started and InitChain returns an error; success is
\* returned only after all of them.
C23_StepOrder ==
    ipc # "off" =>
        /\ C23IsPrefix(itrace, C23Expected)
        /\ \A i \in 2..Len(itrace) : C23Succeeded(itrace[i - 1])
        /\ ifailed # "none" =>
              /\ ipc = "returned" /\ iret \notin {"", "none"}
              /\ itrace # <<>> /\ itrace[Len(itrace)] = ifailed
        /\ (ipc = "returned" /\ iret = "") => itrace = C23Expected /\ ifailed = "none"
        /\ (ipc = "returned" /\ iret # "" /\ itrace # <<>>) => ifailed = itrace[Len(itrace)]

\* configuration writing failed after provisioning and directory creation
C23_Witness ==
    /\ ipc = "returned" /\ ifailed = "config"
    /\ itrace = <<"binary", "dirs", "config">>
    /\ iret = "failed to configure node: failed to write config.toml"

-----------------------------------------------------------------------------
(* C24 *)

\* C24: whenever InitChain returns success, home and its config, data and
\* wasm subdirectories exist and config.toml and app.toml exist under config
\* as generated documents, whatever the home directory held before.
C24_ReadyLayout ==
    (ipc = "returned" /\ iret = "") =>
        /\ {"home", "config", "data", "wasm"} \subseteq dirs
        /\ homeFiles["config.toml"].kind = "yaml"
        /\ homeFiles["app.toml"].kind = "yaml"

\* success from a partial home directory holding an older config.toml
C24_Witness ==
    /\ ipc = "returned" /\ iret = "" /\ icalls = 0
    /\ dirs0 = {"home", "config"}
    /\ homeFiles0["config.toml"].kind = "old"
    /\ "wasm" \in dirs

-----------------------------------------------------------------------------
(* C25 *)

\* C25: no call of InitChain, with any options, changes the shared
\* configuration: the environments and the node-document templates, nested
\* sections included, have the values they had at construction.
C25_SharedConfigUnchanged ==
    ipc # "off" => ConfigValue(cfgEnvs, cfgToml, heap) = config0

-----------------------------------------------------------------------------
(* C26 *)

C26SecondReturned == icalls >= 1 /\ first.ret = "" /\ ipc = "returned"

C26Untimed(f) == [f EXCEPT !.time = 0]

-----------------------------------------------------------------------------
(* C27 *)

C27GenesisEnded ==
    /\ ipc = "returned"
    /\ itrace # <<>> /\ itrace[Len(itrace)] = "genesis"

C27Downloaded == File("download", genResp.body, 0, <<>>)
C27Synthesized == File("json", chainCfg.ChainID, now, chainCfg.GenesisAccounts)

\* the claim's three cases, once genesis setup has chosen its source
C27Selection ==
    /\ chainCfg.GenesisURL # "" =>
          /\ gets = 1
          /\ iret = "" => homeFiles["genesis.json"] = C27Downloaded
    /\ (chainCfg.GenesisURL = "" /\ chainCfg.GenesisAccounts # <<>>) =>
          /\ gets = 0
          /\ iret = "" => homeFiles["genesis.json"] = C27Synthesized
    /\ (chainCfg.GenesisURL = "" /\ chainCfg.GenesisAccounts = <<>>) =>
          /\ gets = 0
          /\ iret = ""
          /\ homeFiles["genesis.json"] = homeFiles0["genesis.json"]

\* C27 as stated: with a genesis URL configured genesis setup downloads from
\* it, local accounts or not; with only local accounts it synthesizes the
\* document from the chain ID and the accounts; with neither it writes no
\* genesis file and succeeds.
C27_GenesisSourceAlways == C27GenesisEnded => C27Selection

C27Cancelled == iret = "failed to setup genesis: " \o CtxErr

\* C27, amended: genesis setup that finds the context cancelled when it
\* begins returns the context's error, downloads nothing and writes nothing;
\* otherwise it picks its source as the claim says.
C27_GenesisSource ==
    C27GenesisEnded =>
        IF C27Cancelled
        THEN gets = 0 /\ homeFiles["genesis.json"] = homeFiles0["genesis.json"]
        ELSE C27Selection

\* the URL won over the local accounts and the download was written
C27_Witness ==
    /\ C27GenesisEnded /\ iret = ""
    /\ chainCfg.GenesisURL # "" /\ chainCfg.GenesisAccounts # <<>>
    /\ homeFiles["genesis.json"] = C27Downloaded

-----------------------------------------------------------------------------
(* C28 *)

\* this call wrote config.toml
C28Written ==
    \/ ipc \in {"genesis", "downloading"}
    \/ ipc = "returned" /\ itrace # <<>> /\ itrace[Len(itrace)] = "genesis"

C28Lines == SplitLines(homeFiles["config.toml"].text)

C28ResolvedChainID ==
    IF opts.ChainID # <<>> THEN opts.ChainID ELSE cfgEnvs[envName].ChainID

\* C28: the node document InitChain writes has the line of the resolved chain
\* ID; when state sync was requested it has a statesync section whose lines
\* include enable: true, whether or not the template had the section.
C28_StateSyncForcedOn ==
    C28Written =>
        /\ \E i \in 1..Len(C28Lines) :
              C28Lines[i] = KChainId \o <<":", " ">> \o C28ResolvedChainID
        /\ opts.WithStateSync =>
              \E i \in 1..Len(C28Lines) :
                 /\ C28Lines[i] = KStateSync \o <<":">>
                 /\ \E j \in (i + 1)..Len(C28Lines) :
                       /\ C28Lines[j] = <<" ", " ", " ", " ">> \o KEnableFlag
                                           \o <<":", " ">> \o YamlTrue
                       /\ \A k \in (i + 1)..j : HasPrefix(C28Lines[k], <<" ">>)

\* state sync requested with a template that has no statesync section, the
\* chain ID overridden
C28_Witness ==
    /\ ipc = "returned" /\ iret = ""
    /\ opts.WithStateSync /\ opts.ChainID # <<>>
    /\ KStateSync \notin DOMAIN config0.ConfigToml

-----------------------------------------------------------------------------
(* C29 *)

\* C29: InitChain for an environment that is not in the configuration
\* returns the configuration error at once: EnsureBinary is not invoked, no
\* request is made, no directory is created and no file is written.
C29_UnknownEnvironment ==
    (ipc # "off" /\ envName \notin DOMAIN cfgEnvs) =>
        /\ ipc \in {"start", "returned"}
        /\ ipc = "returned" => iret = "environment not found in configuration"
        /\ itrace = <<>>
        /\ bpc = "off" /\ requests = <<>> /\ gets = 0
        /\ dirs = dirs0 /\ homeFiles = homeFiles0

\* the unknown environment refused, with no home directory
C29_Witness ==
    /\ envName = "staging" /\ ipc = "returned"
    /\ iret = "environment not found in configuration"
    /\ dirs = {}

-----------------------------------------------------------------------------
(* C30 *)

\* C30: every network call of an operation is bound to the command's
\* context, so a call that is blocked when the context is cancelled is
\* aborted: the genesis download, blocked at cancellation, stays blocked or
\* ends in an error with nothing written.
C30_BlockedCallAborted ==
    [][ (ctxDone /\ ipc = "downloading") =>
            \/ ipc' = "downloading"
            \/ /\ ipc' = "returned" /\ iret' # ""
               /\ homeFiles' = homeFiles ]_vars

-----------------------------------------------------------------------------
(* C31 *)

\* C31: a configuration saved by SaveConfig and loaded back by LoadConfig
\* from the same path has the version and the home directory string that
\* were saved; a leading ~ in the home directory is kept as written.
C31_RoundTrip ==
    (cpc = "done" /\ cret = "") =>
        /\ loaded.Version = saved.Version
        /\ loaded.HomeDir = saved.HomeDir

-----------------------------------------------------------------------------
(* C32 *)

\* C32: on every path through stopNode, the one where the graceful signal
\* could not be sent and the forceful one was tried included, stopNode
\* returns only from the check for the process that follows the grace period,
\* and returns the "still running" error exactly when the process is found.
C32_WaitThenCheck ==
    [][ (/\ op = "RestoreSnapshot"
         /\ pc \in {"stop_term", "stop_kill", "stop_wait"}
         /\ pc' \notin {"stop_term", "stop_kill", "stop_wait"})
        => /\ pc = "stop_wait"
           /\ (log'[Len(log')] = "stopNode_failed") <=> nodeRunning ]_vars

-----------------------------------------------------------------------------
(* C33 *)

\* C33: stopNode tries the forceful signal if and only if the run of the
\* graceful pkill failed; a process that got the graceful signal and is still
\* there after the grace period makes stopNode return an error with no
\* forceful signal tried.
C33_EscalationOnlyOnSendFailure ==
    op = "RestoreSnapshot" =>
        /\ Took({"pkill_KILL", "pkill_KILL_failed"}) => Took({"pkill_TERM_failed"})
        /\ Took({"pkill_TERM_failed"}) =>
              pc = "stop_kill" \/ Took({"pkill_KILL", "pkill_KILL_failed"})
        /\ (Took({"pkill_TERM"}) /\ Took({"stopNode_failed"})) =>
              /\ pc = "returned" /\ ret = "failed to stop node"
              /\ ~Took({"pkill_KILL", "pkill_KILL_failed"})
              /\ signals = <<"TERM">>

\* the graceful signal was delivered, the process outlived the grace period
\* and stopNode returned its error with nothing but TERM sent
C33_Witness ==
    /\ op = "RestoreSnapshot"
    /\ log = <<"pkill_TERM", "stopNode_failed">>
    /\ signals = <<"TERM">>
    /\ nodeRunning
    /\ pc = "returned"

\* the other direction: the graceful pkill failed and the forceful one ran
C33_WitnessEscalated ==
    /\ op = "RestoreSnapshot"
    /\ log = <<"pkill_TERM_failed", "pkill_KILL", "stopNode_ok">>
    /\ signals = <<"KILL">>

-----------------------------------------------------------------------------
(* C34 *)

\* a line that, trimmed, is an optional sign followed by decimal digits
C34Integer(line) ==
    LET t == TrimSpace(line)
        d == IF t # <<>> /\ t[1] \in {"+", "-"} THEN Tail(t) ELSE t
    IN  d # <<>> /\ \A i \in 1..Len(d) : d[i] \in {"0", "1", "2", "3", "4", "5", "6", "7", "8", "9"}

C34Failed == tpc = "returned" /\ trustErr # ""

\* C34: the operator is prompted only after every collected endpoint was
\* queried and failed; a height line that is not a base-10 integer, or a hash
\* line that fails hash validation, makes the resolution fail with no
\* further prompt and no further endpoint query.
C34_InteractiveLastResort ==
    /\ (stdinReads > 0 \/ tpc \in {"readHeight", "readHash"}) =>
          /\ queried = rpcEndpoints
          /\ \A i \in 1..Len(queried) : queryBlockFromRPC(rpcResponse[queried[i]]).err # ""
    /\ (Len(stdinLines) >= 1 /\ ~stdinLines[1].eof /\ ~C34Integer(stdinLines[1].text)) =>
          C34Failed /\ stdinReads = 1 /\ Len(stdinLines) = 1
    /\ (Len(stdinLines) >= 2 /\ ~stdinLines[2].eof
            /\ ~isValidHash(TrimSpace(stdinLines[2].text))) =>
          C34Failed /\ stdinReads = 2 /\ Len(stdinLines) = 2

\* two endpoints failed, the operator gave a height and then a bad hash
C34_Witness ==
    /\ Len(queried) = 2
    /\ Len(stdinLines) = 2
    /\ stdinLines[2].text = <<"z", "z", "\n">>
    /\ trustErr = "invalid hash format: should be a 64-character hex string"
    /\ tpc = "returned"

\* an endpoint failed and the operator typed a height that is no number
C34_WitnessHeight ==
    /\ Len(queried) >= 1
    /\ stdinLines = << [eof |-> FALSE, text |-> <<"a", "b", "c", "\n">>] >>
    /\ trustErr = "invalid height input"
    /\ tpc = "returned"

-----------------------------------------------------------------------------
(* C35 *)

C35Launched == proc # "none"

\* C35: SyncState launches the node process only after the trust anchor was
\* resolved and the node document was patched with it and written; when the
\* anchor resolution or the patch step fails, SyncState returns an error and
\* the node process is not started.
C35_LaunchAfterConfigure ==
    /\ (C35Launched \/ spc \in {"start", "select"}) =>
          /\ tpc = "returned" /\ trustErr = ""
          /\ cfgErr = ""
          /\ updates = stateSyncUpdates(cfgEndpoint, trustBlock.Height, trustBlock.Hash)
          /\ \E keys \in MapOrders(DOMAIN updates) :
                content = applyUpdates(content0, updates, keys)
    /\ ((tpc = "returned" /\ trustErr # "") \/ cfgErr \notin {"unset", ""}) =>
          /\ ~C35Launched
          /\ spc \in {"configure", "returned"}
          /\ spc = "returned" => sret = "failed to configure state sync"

\* the anchor came from an endpoint, the document was written and the node
\* process runs
C35_Witness ==
    /\ proc = "running"
    /\ cfgErr = ""
    /\ trustBlock.Height = 1000000
    /\ content # content0

\* the write of the patched document failed and SyncState returned
C35_WitnessPatchFailed ==
    /\ cfgErr = "failed to write config"
    /\ spc = "returned"
    /\ proc = "none"

-----------------------------------------------------------------------------
(* C36 *)

\* the first token of a text whose tokens are separated by spaces, tabs and
\* line breaks
RECURSIVE C36UpToSpace(_)
C36UpToSpace(s) ==
    IF s = <<>> \/ IsSpace(Head(s)) THEN <<>>
    ELSE <<Head(s)>> \o C36UpToSpace(Tail(s))

C36FirstToken(s) == C36UpToSpace(TrimLeftSpace(s))

\* verifyChecksum compared the two digests: it downloaded and read the
\* checksum file and hashed the binary
C36Compared ==
    /\ bpc \in {"install", "returned"}
    /\ Len(requests) > 0 /\ requests[Len(requests)] = "checksum"
    /\ downloaded # "none"
    /\ sumResp.reachable /\ sumResp.status = 200
    /\ bret \notin C19OtherVerifyErrors

\* C36: checksum verification accepts the downloaded binary exactly when its
\* digest equals, letter case ignored, the first whitespace-delimited token
\* of the checksum file.
C36_ChecksumAcceptance ==
    C36Compared =>
        (bret # C19Mismatch
            <=> ToLower(Sha256Hex(downloaded)) = ToLower(C36FirstToken(sumResp.body)))

-----------------------------------------------------------------------------
(* C37 *)

C37SomeCallSucceeded == \E i \in 1..Len(fnCalls) : fnCalls[i] = ""

\* C37: RetryWithContext returns nil exactly when some call of fn returned
\* nil; it calls fn at most MaxAttempts times, never again after a success or
\* after it saw the context done, returns the context's error in that case,
\* and returns the error of the last call when all MaxAttempts calls failed.
C37_RetryContract ==
    /\ Len(fnCalls) <= maxAttempts
    /\ \A i \in 1..(Len(fnCalls) - 1) : fnCalls[i] # ""
    /\ (sawDone \/ C37SomeCallSucceeded) => rpc = "returned"
    /\ rpc = "returned" =>
          /\ rret = "" <=> C37SomeCallSucceeded
          /\ sawDone => rret = ctxErr /\ rret # ""
          /\ (Len(fnCalls) = maxAttempts /\ ~C37SomeCallSucceeded /\ ~sawDone
                /\ fnCalls # <<>>) => rret = fnCalls[Len(fnCalls)]

-----------------------------------------------------------------------------
(* C38 *)

\* C38: once MonitorStateSync has returned, the goroutine's send on errCh
\* never blocks and the goroutine runs to its end, in every interleaving,
\* also when the main flow has returned on cancellation and nothing receives
\* from the channel.
C38_MonitorGoroutineEnds ==
    /\ [](mpc = "returning" => (merr = "" \/ CanSend))
    /\ (mpc = "returning") ~> (mpc = "finished")

\* the main flow returned on cancellation, the goroutine sent the
\* cancellation error into the buffer and ended, and the value stays there
C38_Witness ==
    /\ spc = "returned"
    /\ sret = "state sync failed: state sync cancelled: " \o CtxErr
    /\ mpc = "finished"
    /\ errCh = <<CtxErr>>
    /\ errChClosed

-----------------------------------------------------------------------------
(* C39 *)

\* a URL template with the version put in the place it marks
C39Instantiated(template, v) ==
    [i \in 1..Len(template) |->
        IF template[i] \in {Verb, Placeholder} THEN Ver(v) ELSE template[i]]

\* C39: when InitChain for an environment reaches the download path of
\* EnsureBinary, the binary URL and the checksum URL requested are the ones
\* configured for that environment, instantiated with the resolved version.
C39_UrlsOfEnvironment ==
    (ipc # "off" /\ envName \in DOMAIN BinaryEnvironments) =>
        \A i \in 1..Len(requests) :
            /\ requests[i] = "binary" =>
                  urls[i] = C39Instantiated(BinaryEnvironments[envName].BinaryURL, resolved)
            /\ requests[i] = "checksum" =>
                  urls[i] = C39Instantiated(BinaryEnvironments[envName].BinaryChecksumURL,
                                            resolved)

====
